---------------------------- MODULE Spec2Model ----------------------------
(***************************************************************************)
(* SmartOS: intent classification -> action dispatch -> metrics            *)
(* aggregation.  Texts are sequences of one-character strings, so that     *)
(* Python's substring test, lower(), strip(), split(), find() and slicing  *)
(* are modelled by what they do.  Confidences are percentages (0.9 = 90),  *)
(* execution times are whole seconds, the live average is an exact         *)
(* fraction.                                                               *)
(***************************************************************************)
EXTENDS Integers, Sequences, FiniteSets, TLC

VARIABLES
    command,            \* the text handed to parse_command / process_command
    intent,             \* the intent parse_command returned (NoIntent before)
    platform,           \* sys.platform family: "win", "darwin" or "linux"
    screenshot_on_error,\* core.config["screenshot_on_error"]
    fs,                 \* the file system: path -> [kind, content]
    procs,              \* the external commands handed to subprocess so far
    result,             \* the dict execute_intent returned (NoResult before)
    raised,             \* the exception that left the last operation, or NoException
    handler_fault,      \* history: the exception raised inside the handler last run
    capture_calls,      \* history: number of _capture_screenshot calls so far
    execution_metrics,  \* SmartOSCore.execution_metrics
    log_file,           \* execution_logs/execution_<day>.json
    response,           \* the last response spoken or printed
    dispatched,         \* history: execution times of the commands dispatched so far
    calls,              \* history: number of process_command calls so far
    appended,           \* history: number of records log_execution_result wrote so far
    steps,              \* history: the steps of the last process_command call, in order
    loop,               \* the interaction loop: its mode, whether it runs, why it ended
    monitoring,         \* RealTimeMonitor.monitoring
    monitor_thread,     \* where the thread running _monitor_loop stands
    controller,         \* where the caller of start_monitoring / stop_monitoring stands
    disk,               \* the day's log file as the tokens of its JSON text
    writer,             \* log_execution_result in progress: [pc, logs, pos, whole]
    reader,             \* the tokens json.load has read so far in collect_execution_data
    read_began,         \* history: number of appends completed when that read began
    old_log,            \* execution_logs/execution_<an earlier day>.json
    data,               \* the record list given to calculate_performance_metrics
    metrics,            \* the snapshot calculate_performance_metrics returned
    dashboard           \* what generate_html_dashboard computed for the page

nluVars == <<command, intent>>
envVars == <<platform, screenshot_on_error>>
execVars == <<fs, procs, result, raised, handler_fault, capture_calls>>
pipelineVars == <<execution_metrics, log_file, response, dispatched, calls, appended, steps>>
loopVars == <<loop>>
monitorVars == <<monitoring, monitor_thread, controller, disk, writer, reader, read_began>>
collectorVars == <<old_log, data, metrics, dashboard>>

vars == <<nluVars, envVars, execVars, pipelineVars, collectorVars, loopVars, monitorVars>>

---------------------------------------------------------------------------
(* Bounds of the model. *)

\* the generated commands have at most MaxWords words
MaxWords == 2

---------------------------------------------------------------------------
(* Python's str operations on character sequences. *)

Min(S) == CHOOSE x \in S : \A y \in S : x <= y
Max(S) == CHOOSE x \in S : \A y \in S : x >= y

Whitespace == {" ", "\t", "\n"}

UpperCase == <<"A", "B", "C", "D", "E", "F", "G", "H", "I", "J", "K", "L", "M", "N", "O", "P", "Q", "R", "S", "T", "U", "V", "W", "X", "Y", "Z">>
LowerCase == <<"a", "b", "c", "d", "e", "f", "g", "h", "i", "j", "k", "l", "m", "n", "o", "p", "q", "r", "s", "t", "u", "v", "w", "x", "y", "z">>

\* str.lower()
lower(s) ==
    [i \in 1..Len(s) |->
        IF \E k \in 1..26 : UpperCase[k] = s[i]
        THEN LowerCase[CHOOSE k \in 1..26 : UpperCase[k] = s[i]]
        ELSE s[i]]

\* str.strip()
strip(s) ==
    LET keep == {i \in 1..Len(s) : s[i] \notin Whitespace}
    IN  IF keep = {} THEN <<>> ELSE SubSeq(s, Min(keep), Max(keep))

\* sub in s
In(sub, s) ==
    \E i \in 1..(Len(s) - Len(sub) + 1) :
        \A j \in 1..Len(sub) : s[i + j - 1] = sub[j]

\* s.find(sub): the lowest 0-based index of sub in s, -1 when absent
find(s, sub) ==
    LET hits == {i \in 0..(Len(s) - Len(sub)) :
                    \A j \in 1..Len(sub) : s[i + j] = sub[j]}
    IN  IF hits = {} THEN -1 ELSE Min(hits)

\* s[start:]
slice_from(s, start) == SubSeq(s, start + 1, Len(s))

\* str.split(): the maximal runs of non-whitespace characters
RECURSIVE split(_)
split(s) ==
    LET t == strip(s)
        ws == {i \in 1..Len(t) : t[i] \in Whitespace}
    IN  IF t = <<>> THEN <<>>
        ELSE IF ws = {} THEN <<t>>
        ELSE <<SubSeq(t, 1, Min(ws) - 1)>> \o split(SubSeq(t, Min(ws), Len(t)))

\* str.replace(' ', '_')
replace_spaces(s) == [i \in 1..Len(s) |-> IF s[i] = " " THEN "_" ELSE s[i]]

---------------------------------------------------------------------------
(* NLUProcessor *)

\* the dictionaries keep their insertion order, so they are sequences here
intent_patterns ==
    [open_application |->
        [keywords |-> <<<<"o", "p", "e", "n">>, <<"l", "a", "u", "n", "c", "h">>, <<"s", "t", "a", "r", "t">>, <<"r", "u", "n">>>>,
         apps |-> <<
            [label |-> <<"n", "o", "t", "e", "p", "a", "d">>,    aliases |-> <<<<"n", "o", "t", "e", "p", "a", "d">>, <<"t", "e", "x", "t", " ", "e", "d", "i", "t", "o", "r">>, <<"n", "o", "t", "e">>>>],
            [label |-> <<"c", "a", "l", "c", "u", "l", "a", "t", "o", "r">>, aliases |-> <<<<"c", "a", "l", "c", "u", "l", "a", "t", "o", "r">>, <<"c", "a", "l", "c">>>>],
            [label |-> <<"b", "r", "o", "w", "s", "e", "r">>,    aliases |-> <<<<"b", "r", "o", "w", "s", "e", "r">>, <<"c", "h", "r", "o", "m", "e">>, <<"f", "i", "r", "e", "f", "o", "x">>, <<"e", "d", "g", "e">>, <<"i", "n", "t", "e", "r", "n", "e", "t">>>>],
            [label |-> <<"e", "x", "p", "l", "o", "r", "e", "r">>,   aliases |-> <<<<"e", "x", "p", "l", "o", "r", "e", "r">>, <<"f", "i", "l", "e", " ", "m", "a", "n", "a", "g", "e", "r">>, <<"f", "i", "l", "e", "s">>, <<"f", "o", "l", "d", "e", "r">>>>],
            [label |-> <<"c", "m", "d">>,        aliases |-> <<<<"c", "o", "m", "m", "a", "n", "d", " ", "p", "r", "o", "m", "p", "t">>, <<"c", "m", "d">>, <<"t", "e", "r", "m", "i", "n", "a", "l">>, <<"c", "o", "n", "s", "o", "l", "e">>>>],
            [label |-> <<"p", "o", "w", "e", "r", "s", "h", "e", "l", "l">>, aliases |-> <<<<"p", "o", "w", "e", "r", "s", "h", "e", "l", "l">>, <<"p", "s">>>>],
            [label |-> <<"c", "o", "d", "e">>,       aliases |-> <<<<"v", "s", "c", "o", "d", "e">>, <<"v", "i", "s", "u", "a", "l", " ", "s", "t", "u", "d", "i", "o", " ", "c", "o", "d", "e">>, <<"c", "o", "d", "e", " ", "e", "d", "i", "t", "o", "r">>, <<"v", "s", " ", "c", "o", "d", "e">>>>],
            [label |-> <<"w", "o", "r", "d">>,       aliases |-> <<<<"w", "o", "r", "d">>, <<"m", "i", "c", "r", "o", "s", "o", "f", "t", " ", "w", "o", "r", "d">>, <<"d", "o", "c", "u", "m", "e", "n", "t">>>>],
            [label |-> <<"e", "x", "c", "e", "l">>,      aliases |-> <<<<"e", "x", "c", "e", "l">>, <<"s", "p", "r", "e", "a", "d", "s", "h", "e", "e", "t">>, <<"m", "i", "c", "r", "o", "s", "o", "f", "t", " ", "e", "x", "c", "e", "l">>>>] >>],
     file_operations |->
        [keywords |-> <<<<"c", "r", "e", "a", "t", "e">>, <<"w", "r", "i", "t", "e">>, <<"s", "a", "v", "e">>, <<"d", "e", "l", "e", "t", "e">>, <<"c", "o", "p", "y">>, <<"m", "o", "v", "e">>>>,
         actions |-> <<
            [label |-> <<"c", "r", "e", "a", "t", "e">>, aliases |-> <<<<"c", "r", "e", "a", "t", "e">>, <<"m", "a", "k", "e">>, <<"n", "e", "w">>>>],
            [label |-> <<"w", "r", "i", "t", "e">>,  aliases |-> <<<<"w", "r", "i", "t", "e">>, <<"t", "y", "p", "e">>, <<"a", "d", "d", " ", "c", "o", "n", "t", "e", "n", "t">>, <<"i", "n", "s", "e", "r", "t">>>>],
            [label |-> <<"s", "a", "v", "e">>,   aliases |-> <<<<"s", "a", "v", "e">>, <<"s", "t", "o", "r", "e">>>>],
            [label |-> <<"d", "e", "l", "e", "t", "e">>, aliases |-> <<<<"d", "e", "l", "e", "t", "e">>, <<"r", "e", "m", "o", "v", "e">>, <<"e", "r", "a", "s", "e">>>>],
            [label |-> <<"c", "o", "p", "y">>,   aliases |-> <<<<"c", "o", "p", "y">>, <<"d", "u", "p", "l", "i", "c", "a", "t", "e">>>>],
            [label |-> <<"m", "o", "v", "e">>,   aliases |-> <<<<"m", "o", "v", "e">>, <<"t", "r", "a", "n", "s", "f", "e", "r">>, <<"r", "e", "l", "o", "c", "a", "t", "e">>>>] >>],
     system_control |->
        [keywords |-> <<<<"s", "h", "u", "t", "d", "o", "w", "n">>, <<"r", "e", "s", "t", "a", "r", "t">>, <<"s", "l", "e", "e", "p">>, <<"h", "i", "b", "e", "r", "n", "a", "t", "e">>, <<"l", "o", "c", "k">>>>],
     content_creation |->
        [keywords |-> <<<<"w", "r", "i", "t", "e", " ", "e", "s", "s", "a", "y">>, <<"c", "r", "e", "a", "t", "e", " ", "d", "o", "c", "u", "m", "e", "n", "t">>, <<"c", "o", "m", "p", "o", "s", "e">>, <<"d", "r", "a", "f", "t">>>>,
         types |-> <<<<"e", "s", "s", "a", "y">>, <<"d", "o", "c", "u", "m", "e", "n", "t">>, <<"l", "e", "t", "t", "e", "r">>, <<"r", "e", "p", "o", "r", "t">>, <<"e", "m", "a", "i", "l">>>>]]

NoParameters == [k \in {} |-> <<>>]

\* any(alias in command_lower for alias in aliases)
AnyIn(aliases, text) == \E i \in 1..Len(aliases) : In(aliases[i], text)

\* mutant: the last matching entry wins
LastEntry(entries, text) ==
    LET hits == {i \in 1..Len(entries) : AnyIn(entries[i].aliases, text)}
    IN  IF hits = {} THEN 0 ELSE Max(hits)

\* the first entry, in declared order, one of whose aliases occurs; 0 when none
FirstEntry(entries, text) ==
    LET hits == {i \in 1..Len(entries) : AnyIn(entries[i].aliases, text)}
    IN  IF hits = {} THEN 0 ELSE Min(hits)

\* the first string of seq, in declared order, that occurs in text; 0 when none
FirstIn(seq, text) ==
    LET hits == {i \in 1..Len(seq) : In(seq[i], text)}
    IN  IF hits = {} THEN 0 ELSE Min(hits)

\* mutant: an alias alone selects the group, no trigger keyword needed
open_application_detection_no_keyword(intent0, command_lower) ==
    LET p == intent_patterns.open_application
        i == FirstEntry(p.apps, command_lower)
    IN  IF i = 0 THEN intent0
        ELSE [intent0 EXCEPT !.action = "open_application",
                             !.target = p.apps[i].label,
                             !.confidence = 90]

\* mutant: the confidence is assigned with the action, before a target is found
open_application_detection_base_confidence(intent0, command_lower) ==
    LET p == intent_patterns.open_application
        i == FirstEntry(p.apps, command_lower)
    IN  IF ~AnyIn(p.keywords, command_lower) THEN intent0
        ELSE IF i = 0 THEN [intent0 EXCEPT !.action = "open_application",
                                           !.confidence = 90]
        ELSE [intent0 EXCEPT !.action = "open_application",
                             !.target = p.apps[i].label,
                             !.confidence = 90]

\* "Application opening detection"
open_application_detection(intent0, command_lower) ==
    LET p == intent_patterns.open_application
        i == FirstEntry(p.apps, command_lower)
    IN  IF ~AnyIn(p.keywords, command_lower) THEN intent0
        ELSE IF i = 0 THEN [intent0 EXCEPT !.action = "open_application"]
        ELSE [intent0 EXCEPT !.action = "open_application",
                             !.target = p.apps[i].label,
                             !.confidence = 90]

\* the token after the first "file"/"document" token that has a successor
filename_parameter(text, command_lower) ==
    LET words == split(text)
        hits == {i \in 1..Len(words) :
                    /\ lower(words[i]) \in {<<"f", "i", "l", "e">>, <<"d", "o", "c", "u", "m", "e", "n", "t">>}
                    /\ i + 1 <= Len(words)}
    IN  IF (In(<<"f", "i", "l", "e">>, command_lower) \/ In(<<"d", "o", "c", "u", "m", "e", "n", "t">>, command_lower)) /\ hits # {}
        THEN "filename" :> words[Min(hits) + 1]
        ELSE NoParameters

\* "File operations detection"
file_operations_detection(intent0, text, command_lower) ==
    LET p == intent_patterns.file_operations
        i == FirstEntry(p.actions, command_lower)
    IN  IF intent0.action # "unknown" THEN intent0
        ELSE IF ~AnyIn(p.keywords, command_lower) THEN intent0
        ELSE IF i = 0 THEN [intent0 EXCEPT !.action = "file_operation"]
        ELSE [intent0 EXCEPT !.action = "file_operation",
                             !.target = p.actions[i].label,
                             !.confidence = 80,
                             !.parameters = filename_parameter(text, command_lower)]

\* "System control detection"
system_control_detection(intent0, command_lower) ==
    LET p == intent_patterns.system_control
        i == FirstIn(p.keywords, command_lower)
    IN  IF intent0.action # "unknown" THEN intent0
        ELSE IF i = 0 THEN intent0
        ELSE [intent0 EXCEPT !.action = "system_control",
                             !.target = p.keywords[i],
                             !.confidence = 85]

\* any(k in command_lower for k in keyword.split()) for some keyword
content_keyword_hit(command_lower) ==
    LET kws == intent_patterns.content_creation.keywords
    IN  \E i \in 1..Len(kws) : AnyIn(split(kws[i]), command_lower)

\* command[topic_start:].strip(), topic_start taken in command_lower
topic_parameter(text, command_lower) ==
    IF In(<<"a", "b", "o", "u", "t">>, command_lower)
    THEN "topic" :> strip(slice_from(text, find(command_lower, <<"a", "b", "o", "u", "t">>) + 5))
    ELSE NoParameters

\* "Content creation detection"
content_creation_detection(intent0, text, command_lower) ==
    LET p == intent_patterns.content_creation
        i == FirstIn(p.types, command_lower)
    IN  IF intent0.action # "unknown" THEN intent0
        ELSE IF ~content_keyword_hit(command_lower) THEN intent0
        ELSE IF i = 0 THEN [intent0 EXCEPT !.action = "content_creation"]
        ELSE [intent0 EXCEPT !.action = "content_creation",
                             !.target = p.types[i],
                             !.confidence = 75,
                             !.parameters = topic_parameter(text, command_lower)]

\* the intent dict parse_command starts from
unknown_intent(text) ==
    [action |-> "unknown", target |-> <<>>, parameters |-> NoParameters,
     confidence |-> 0, original_command |-> text]

\* mutant: the file group is consulted before the application group
parse_command_file_first(text) ==
    LET command_lower == strip(lower(text))
        i1 == file_operations_detection(unknown_intent(text), text, command_lower)
        i2 == IF i1.action = "unknown"
              THEN open_application_detection(i1, command_lower) ELSE i1
        i3 == system_control_detection(i2, command_lower)
    IN  content_creation_detection(i3, text, command_lower)

parse_command(text) ==
    LET command_lower == strip(lower(text))
        i1 == open_application_detection(unknown_intent(text), command_lower)
        i2 == file_operations_detection(i1, text, command_lower)
        i3 == system_control_detection(i2, command_lower)
    IN  content_creation_detection(i3, text, command_lower)

---------------------------------------------------------------------------
(* The commands the model is run on. *)

Vocabulary ==
    { <<>>, <<"o", "p", "e", "n">>, <<"O", "p", "e", "n">>, <<"l", "a", "u", "n", "c", "h">>, <<"r", "e", "s", "t", "a", "r", "t">>, <<"n", "o", "t", "e", "p", "a", "d">>, <<"c", "a", "l", "c", "u", "l", "a", "t", "o", "r">>,
      <<"c", "r", "e", "a", "t", "e">>, <<"d", "e", "l", "e", "t", "e">>, <<"f", "i", "l", "e">>, <<"d", "o", "c", "u", "m", "e", "n", "t">>, <<"e", "s", "s", "a", "y">>, <<"c", "o", "m", "p", "o", "s", "e">>,
      <<"a", "b", "o", "u", "t">>, <<"l", "o", "c", "k">>, <<"s", "l", "e", "e", "p">>, <<"a", "s", "d", "k", "j">>, <<"x", ".", "t", "x", "t">> }

RECURSIVE join(_)
join(words) ==
    IF Len(words) = 0 THEN <<>>
    ELSE IF Len(words) = 1 THEN words[1]
    ELSE words[1] \o <<" ">> \o join(Tail(words))

\* every text of at most MaxWords words of the vocabulary, separated by blanks
WordTexts == {join(ws) : ws \in UNION {[1..n -> Vocabulary] : n \in 0..MaxWords}}

\* commands of the test suite and the specification's examples
SampleCommands ==
    { <<"o", "p", "e", "n", " ", "n", "o", "t", "e", "p", "a", "d">>,
      <<"a", "s", "d", "k", "j", " ", "q", "w", "o", "e", "i">>,
      <<"o", "p", "e", "n", " ", "n", "o", "t", "e", "p", "a", "d", " ", "a", "n", "d", " ", "c", "r", "e", "a", "t", "e", " ", "n", "e", "w", " ", "d", "o", "c", "u", "m", "e", "n", "t">>,
      <<"l", "a", "u", "n", "c", "h", " ", "c", "a", "l", "c", "u", "l", "a", "t", "o", "r", " ", "t", "h", "e", "n", " ", "o", "p", "e", "n", " ", "n", "o", "t", "e", "p", "a", "d">>,
      <<"c", "r", "e", "a", "t", "e", " ", "f", "i", "l", "e", " ", "t", "e", "s", "t", ".", "t", "x", "t">>,
      <<"d", "e", "l", "e", "t", "e", " ", "f", "i", "l", "e", " ", "x", ".", "t", "x", "t">>,
      <<"c", "o", "p", "y", " ", "f", "i", "l", "e", " ", "x", ".", "t", "x", "t">>,
      <<"w", "r", "i", "t", "e", " ", "e", "s", "s", "a", "y", " ", "a", "b", "o", "u", "t", " ", "t", "e", "c", "h", "n", "o", "l", "o", "g", "y">>,
      <<"c", "o", "m", "p", "o", "s", "e", " ", "l", "e", "t", "t", "e", "r", " ", "a", "b", "o", "u", "t", " ", "j", "o", "b", " ", "a", "p", "p", "l", "i", "c", "a", "t", "i", "o", "n">>,
      <<"c", "r", "e", "a", "t", "e", " ", "d", "o", "c", "u", "m", "e", "n", "t", " ", "a", "b", "o", "u", "t", " ", "a", "r", "t", "i", "f", "i", "c", "i", "a", "l", " ", "i", "n", "t", "e", "l", "l", "i", "g", "e", "n", "c", "e">>,
      <<"w", "r", "i", "t", "e", " ", "r", "e", "p", "o", "r", "t", " ", "a", "b", "o", "u", "t", " ", "c", "l", "i", "m", "a", "t", "e", " ", "c", "h", "a", "n", "g", "e">>,
      <<" ", " ", "C", "o", "m", "p", "o", "s", "e", " ", "e", "s", "s", "a", "y", " ", "a", "b", "o", "u", "t", " ", "a", "i">>,
      <<"d", "r", "a", "f", "t", " ", "a", " ", "n", "o", "t", "e">>,
      <<"m", "y", " ", "e", "s", "s", "a", "y">>,
      <<"c", "o", "m", "p", "o", "s", "e", " ", "d", "o", "c", "u", "m", "e", "n", "t", " ", "e", "s", "s", "a", "y">>,
      <<"o", "p", "e", "n", " ", "n", "o", "n", "e", "x", "i", "s", "t", "e", "n", "t", "_", "a", "p", "p">>,
      <<"o", "p", "e", "n", " ", "e", "x", "c", "e", "l">>,
      <<"r", "e", "s", "t", "a", "r", "t">>,
      <<"l", "o", "c", "k">>,
      <<"s", "l", "e", "e", "p">>,
      <<"s", "h", "u", "t", "d", "o", "w", "n">>,
      <<"h", "i", "b", "e", "r", "n", "a", "t", "e">>,
      <<"c", "o", "m", "p", "o", "s", "e", " ", "a", "b", "o", "u", "t", " ", "a", "i">>,
      <<"c", "o", "m", "p", "o", "s", "e", " ", "e", "s", "s", "a", "y", " ", "a", "b", "o", "u", "t", " ", "a", "i">> }

Commands == WordTexts \cup SampleCommands

---------------------------------------------------------------------------
(* Values before an operation has run. *)

NoIntent == [action |-> "none"]
NoResult == [none |-> TRUE]
NoException == "None"
NoFault == [text |-> "None", escaped |-> FALSE]
NoMetrics == [none |-> TRUE]
NoDashboard == [none |-> TRUE]
NoResponse == [kind |-> "none", message |-> [text |-> "", arg |-> <<>>, detail |-> ""]]
NoFile == [exists |-> FALSE, valid |-> TRUE, records |-> <<>>]
Zero == [num |-> 0, den |-> 1]
NoLoop == [mode |-> "none", voice_enabled |-> FALSE, running |-> FALSE, ended_by |-> "none", pending |-> <<>>]

InitialMetrics ==
    [total_commands |-> 0, successful_commands |-> 0, failed_commands |-> 0,
     average_response_time |-> Zero]

\* no monitor was started, no log file is being written or read
NoController == [pc |-> "idle", saw |-> "none", orphans |-> 0]
NoDisk == [exists |-> FALSE, tokens |-> <<>>]
NoWriter == [pc |-> "idle", logs |-> <<>>, pos |-> 0, whole |-> 0]

MonitorIdle ==
    /\ monitoring = FALSE
    /\ monitor_thread = "none"
    /\ controller = NoController
    /\ disk = NoDisk
    /\ writer = NoWriter
    /\ reader = <<>>
    /\ read_began = 0

\* the part of the state an operation under study does not touch
Idle ==
    /\ MonitorIdle
    /\ platform = "linux"
    /\ screenshot_on_error = TRUE
    /\ fs = NoParameters
    /\ procs = <<>>
    /\ result = NoResult
    /\ raised = NoException
    /\ handler_fault = NoFault
    /\ capture_calls = 0
    /\ execution_metrics = InitialMetrics
    /\ log_file = NoFile
    /\ response = NoResponse
    /\ dispatched = <<>>
    /\ calls = 0
    /\ appended = 0
    /\ steps = <<>>
    /\ loop = NoLoop
    /\ old_log = NoFile
    /\ metrics = NoMetrics
    /\ dashboard = NoDashboard

---------------------------------------------------------------------------
(* SpecParse: parse_command applied to every command. *)

InitParse ==
    /\ command \in Commands
    /\ intent = NoIntent
    /\ data = <<>>
    /\ Idle

ParseCommand ==
    /\ intent = NoIntent
    /\ intent' = parse_command(command)
    /\ UNCHANGED <<command, envVars, execVars, pipelineVars, collectorVars, loopVars, monitorVars>>

NextParse == ParseCommand

SpecParse == InitParse /\ [][NextParse]_vars

---------------------------------------------------------------------------
(* TaskExecutor *)

Platforms == {"win", "darwin", "linux"}

\* faults of the environment: a file system call raises ("io"), a process
\* cannot be spawned ("launch")
OSFaults == {"none", "io", "launch"}

\* wall-clock durations of a dispatch, in seconds
ExecTimes == {0, 2, 4, 6}

None == "None"

File(content) == [kind |-> "file", content |-> content]
Directory == [kind |-> "dir", content |-> <<>>]

\* dict.get(key, default)
get(dict, key, default) == IF key \in DOMAIN dict THEN dict[key] ELSE default

_get_app_commands(pf) ==
    IF pf = "win" THEN
        (<<"n", "o", "t", "e", "p", "a", "d">> :> "notepad.exe") @@ (<<"c", "a", "l", "c", "u", "l", "a", "t", "o", "r">> :> "calc.exe") @@
        (<<"b", "r", "o", "w", "s", "e", "r">> :> "start chrome") @@ (<<"e", "x", "p", "l", "o", "r", "e", "r">> :> "explorer.exe") @@
        (<<"c", "m", "d">> :> "cmd.exe") @@ (<<"p", "o", "w", "e", "r", "s", "h", "e", "l", "l">> :> "powershell.exe") @@
        (<<"c", "o", "d", "e">> :> "code") @@ (<<"w", "o", "r", "d">> :> "winword.exe") @@ (<<"e", "x", "c", "e", "l">> :> "excel.exe")
    ELSE IF pf = "darwin" THEN
        (<<"n", "o", "t", "e", "p", "a", "d">> :> "open -a TextEdit") @@ (<<"c", "a", "l", "c", "u", "l", "a", "t", "o", "r">> :> "open -a Calculator") @@
        (<<"b", "r", "o", "w", "s", "e", "r">> :> "open -a Safari") @@ (<<"e", "x", "p", "l", "o", "r", "e", "r">> :> "open -a Finder") @@
        (<<"c", "m", "d">> :> "open -a Terminal") @@ (<<"c", "o", "d", "e">> :> "code")
    ELSE
        (<<"n", "o", "t", "e", "p", "a", "d">> :> "gedit") @@ (<<"c", "a", "l", "c", "u", "l", "a", "t", "o", "r">> :> "gnome-calculator") @@
        (<<"b", "r", "o", "w", "s", "e", "r">> :> "firefox") @@ (<<"e", "x", "p", "l", "o", "r", "e", "r">> :> "nautilus") @@
        (<<"c", "m", "d">> :> "gnome-terminal") @@ (<<"c", "o", "d", "e">> :> "code")

\* a handler returns a dict, or an exception leaves it; either way with the
\* file system and the spawned processes as it left them
\* (caught: the exception the handler's own try block caught, None when none)
Return(ret, fs1, procs1) ==
    [ret |-> ret, exc |-> None, caught |-> None, fs |-> fs1, procs |-> procs1]
Caught(exc, ret, fs1, procs1) ==
    [ret |-> ret, exc |-> None, caught |-> exc, fs |-> fs1, procs |-> procs1]
Raise(exc, fs1, procs1) ==
    [ret |-> [none |-> TRUE], exc |-> exc, caught |-> None, fs |-> fs1, procs |-> procs1]

Message(text, arg, detail) == [text |-> text, arg |-> arg, detail |-> detail]
Process(prog, file, shell) == [prog |-> prog, file |-> file, shell |-> shell]

\* mutant: the command table is indexed instead of asked with get
_execute_app_launch_indexed(it, fault, pf, fs0, procs0) ==
    IF "target" \notin DOMAIN it THEN Raise("KeyError: 'target'", fs0, procs0)
    ELSE IF it.target \notin DOMAIN _get_app_commands(pf)
    THEN Raise("KeyError: app_name", fs0, procs0)
    ELSE IF fault = "launch"
    THEN Caught("OSError",
                [success |-> FALSE,
                 message |-> Message("Failed to launch", it.target, "OSError")],
                fs0, procs0)
    ELSE Return([success |-> TRUE,
                 message |-> Message("Successfully launched", it.target, "")],
                fs0, Append(procs0, Process(_get_app_commands(pf)[it.target], <<>>, pf = "win")))

_execute_app_launch(it, fault, pf, fs0, procs0) ==
    IF "target" \notin DOMAIN it THEN Raise("KeyError: 'target'", fs0, procs0)
    ELSE
    LET app_name == it.target
        cmd == get(_get_app_commands(pf), app_name, None)
    IN  IF cmd = None
        THEN Return([success |-> FALSE,
                     message |-> Message("Application not supported or not found", app_name, "")],
                    fs0, procs0)
        ELSE IF fault = "launch"
        THEN Caught("OSError",
                    [success |-> FALSE,
                     message |-> Message("Failed to launch", app_name, "OSError")],
                    fs0, procs0)
        ELSE Return([success |-> TRUE,
                     message |-> Message("Successfully launched", app_name, "")],
                    fs0, Append(procs0, Process(cmd, <<>>, pf = "win")))

\* mutant: create truncates a file that exists
touch_truncating(fs0, filename) == (filename :> File(<<>>)) @@ fs0

\* Path(filename).touch(): an empty file when the path is missing, the path
\* as it was (only its times change) when it exists
touch(fs0, filename) ==
    IF filename \in DOMAIN fs0 THEN fs0 ELSE (filename :> File(<<>>)) @@ fs0

\* mutant: delete removes without asking whether the path exists
_execute_file_operation_unchecked_delete(it, fault, pf, fs0, procs0) ==
    IF "target" \notin DOMAIN it THEN Raise("KeyError: 'target'", fs0, procs0)
    ELSE IF "parameters" \notin DOMAIN it THEN Raise("KeyError: 'parameters'", fs0, procs0)
    ELSE
    LET operation == it.target
        filename == get(it.parameters, "filename", <<"u", "n", "t", "i", "t", "l", "e", "d", ".", "t", "x", "t">>)
        failed == Caught("OSError",
                         [success |-> FALSE,
                          message |-> Message("File operation failed", <<>>, "OSError")],
                         fs0, procs0)
    IN  IF operation = <<"c", "r", "e", "a", "t", "e">> THEN
            IF fault = "io" THEN failed
            ELSE Return([success |-> TRUE, message |-> Message("Created file", filename, "")],
                        touch(fs0, filename),
                        procs0)
        ELSE IF operation = <<"w", "r", "i", "t", "e">> THEN
            IF fault = "io" \/ (filename \in DOMAIN fs0 /\ fs0[filename].kind = "dir")
            THEN failed
            ELSE Return([success |-> TRUE, message |-> Message("Written content to", filename, "")],
                        (filename :> File(get(it.parameters, "content", <<"S", "a", "m", "p", "l", "e", " ", "c", "o", "n", "t", "e", "n", "t">>))) @@ fs0,
                        procs0)
        ELSE IF operation = <<"d", "e", "l", "e", "t", "e">> THEN
            IF fault = "io" \/ filename \notin DOMAIN fs0 \/ fs0[filename].kind = "dir"
            THEN failed
            ELSE Return([success |-> TRUE, message |-> Message("Deleted file", filename, "")],
                        [p \in DOMAIN fs0 \ {filename} |-> fs0[p]],
                        procs0)
        ELSE Return([success |-> FALSE,
                     message |-> Message("File operation not implemented", operation, "")],
                    fs0, procs0)

_execute_file_operation(it, fault, pf, fs0, procs0) ==
    IF "target" \notin DOMAIN it THEN Raise("KeyError: 'target'", fs0, procs0)
    ELSE IF "parameters" \notin DOMAIN it THEN Raise("KeyError: 'parameters'", fs0, procs0)
    ELSE
    LET operation == it.target
        filename == get(it.parameters, "filename", <<"u", "n", "t", "i", "t", "l", "e", "d", ".", "t", "x", "t">>)
        failed == Caught("OSError",
                         [success |-> FALSE,
                          message |-> Message("File operation failed", <<>>, "OSError")],
                         fs0, procs0)
    IN  IF operation = <<"c", "r", "e", "a", "t", "e">> THEN
            \* Path(filename).touch() creates the file when it is missing
            IF fault = "io" THEN failed
            ELSE Return([success |-> TRUE, message |-> Message("Created file", filename, "")],
                        touch(fs0, filename),
                        procs0)
        ELSE IF operation = <<"w", "r", "i", "t", "e">> THEN
            IF fault = "io" \/ (filename \in DOMAIN fs0 /\ fs0[filename].kind = "dir")
            THEN failed
            ELSE Return([success |-> TRUE, message |-> Message("Written content to", filename, "")],
                        (filename :> File(get(it.parameters, "content", <<"S", "a", "m", "p", "l", "e", " ", "c", "o", "n", "t", "e", "n", "t">>))) @@ fs0,
                        procs0)
        ELSE IF operation = <<"d", "e", "l", "e", "t", "e">> THEN
            IF filename \in DOMAIN fs0 THEN
                \* os.remove raises on a directory
                IF fault = "io" \/ fs0[filename].kind = "dir" THEN failed
                ELSE Return([success |-> TRUE, message |-> Message("Deleted file", filename, "")],
                            [p \in DOMAIN fs0 \ {filename} |-> fs0[p]],
                            procs0)
            ELSE Return([success |-> FALSE, message |-> Message("File not found", filename, "")],
                        fs0, procs0)
        ELSE Return([success |-> FALSE,
                     message |-> Message("File operation not implemented", operation, "")],
                    fs0, procs0)

\* the command subprocess.run is given for a system action, None when there is none
system_command(pf, action) ==
    IF pf = "win" THEN
        IF action = <<"s", "h", "u", "t", "d", "o", "w", "n">> THEN "shutdown /s /t 60"
        ELSE IF action = <<"r", "e", "s", "t", "a", "r", "t">> THEN "shutdown /r /t 60"
        ELSE IF action = <<"l", "o", "c", "k">> THEN "rundll32.exe user32.dll,LockWorkStation"
        ELSE None
    ELSE
        IF action = <<"s", "h", "u", "t", "d", "o", "w", "n">> THEN "sudo shutdown -h +1"
        ELSE IF action = <<"r", "e", "s", "t", "a", "r", "t">> THEN "sudo shutdown -r +1"
        ELSE IF action = <<"l", "o", "c", "k">> THEN "gnome-screensaver-command -l"
        ELSE None

_execute_system_control(it, fault, pf, fs0, procs0) ==
    IF "target" \notin DOMAIN it THEN Raise("KeyError: 'target'", fs0, procs0)
    ELSE
    LET action == it.target
        cmd == system_command(pf, action)
    IN  IF cmd # None /\ fault = "launch"
        THEN Caught("OSError",
                    [success |-> FALSE,
                     message |-> Message("System control failed", <<>>, "OSError")],
                    fs0, procs0)
        ELSE Return([success |-> TRUE, message |-> Message("System initiated", action, "")],
                    fs0,
                    IF cmd = None THEN procs0
                    ELSE Append(procs0, Process(cmd, <<>>, FALSE)))

content_templates(topic) ==
    (<<"e", "s", "s", "a", "y">> :> (<<"#", " ", "E", "s", "s", "a", "y", " ", "o", "n", " ">> \o topic \o <<"\n", "\n", "I", "n", "t", "r", "o", "d", "u", "c", "t", "i", "o", "n", ":", "\n", "\n", "B", "o", "d", "y", ":", "\n", "\n", "C", "o", "n", "c", "l", "u", "s", "i", "o", "n", ":">>)) @@
    (<<"d", "o", "c", "u", "m", "e", "n", "t">> :> (<<"D", "o", "c", "u", "m", "e", "n", "t", ":", " ">> \o topic \o <<"\n", "\n", "C", "o", "n", "t", "e", "n", "t", " ", "g", "o", "e", "s", " ", "h", "e", "r", "e", ".", ".", ".">>)) @@
    (<<"l", "e", "t", "t", "e", "r">> :> (<<"D", "e", "a", "r", " ", "[", "R", "e", "c", "i", "p", "i", "e", "n", "t", "]", ",", "\n", "\n", "R", "e", "g", "a", "r", "d", "i", "n", "g", ":", " ">> \o topic \o <<"\n", "\n", "S", "i", "n", "c", "e", "r", "e", "l", "y", ",", "\n", "[", "Y", "o", "u", "r", " ", "N", "a", "m", "e", "]">>)) @@
    (<<"r", "e", "p", "o", "r", "t">> :> (<<"#", " ", "R", "e", "p", "o", "r", "t", ":", " ">> \o topic \o <<"\n", "\n", "#", "#", " ", "E", "x", "e", "c", "u", "t", "i", "v", "e", " ", "S", "u", "m", "m", "a", "r", "y", "\n", "\n", "#", "#", " ", "F", "i", "n", "d", "i", "n", "g", "s", "\n", "\n", "#", "#", " ", "R", "e", "c", "o", "m", "m", "e", "n", "d", "a", "t", "i", "o", "n", "s">>))

_execute_content_creation(it, fault, pf, fs0, procs0) ==
    IF "target" \notin DOMAIN it THEN Raise("KeyError: 'target'", fs0, procs0)
    ELSE IF "parameters" \notin DOMAIN it THEN Raise("KeyError: 'parameters'", fs0, procs0)
    ELSE
    LET content_type == it.target
        topic == get(it.parameters, "topic", <<"g", "e", "n", "e", "r", "a", "l", " ", "t", "o", "p", "i", "c">>)
        content == get(content_templates(topic), content_type, <<"C", "o", "n", "t", "e", "n", "t", " ", "a", "b", "o", "u", "t", " ">> \o topic)
        filename == content_type \o <<"_">> \o replace_spaces(topic) \o <<".", "t", "x", "t">>
        written == (filename :> File(content)) @@ fs0
        failed(fs1) == Caught("OSError",
                              [success |-> FALSE,
                               message |-> Message("Content creation failed", <<>>, "OSError")],
                              fs1, procs0)
    IN  IF fault = "io" \/ (filename \in DOMAIN fs0 /\ fs0[filename].kind = "dir")
        THEN failed(fs0)
        ELSE IF fault = "launch" THEN failed(written)
        ELSE Return([success |-> TRUE,
                     message |-> Message("Created content", filename, "")],
                    written,
                    Append(procs0, Process(IF pf = "win" THEN "notepad.exe" ELSE "gedit",
                                           filename, FALSE)))

\* the path _capture_screenshot returns when the grab succeeds
ScreenshotPath == "screenshots/error.png"

HandlerActions == {"open_application", "file_operation", "system_control", "content_creation"}

\* mutant: the screenshot is taken whatever the configuration says
error_capture_unconditional(config_screenshot, shot) ==
    [called |-> TRUE, screenshot |-> shot]

\* the except clause's diagnostic capture: whether _capture_screenshot is
\* called, and what result["screenshot"] holds afterwards
error_capture(config_screenshot, shot) ==
    IF config_screenshot THEN [called |-> TRUE, screenshot |-> shot]
    ELSE [called |-> FALSE, screenshot |-> None]

\* mutant: no try/except around the dispatch
execute_intent_no_boundary(it, fault, t, shot, pf, config_screenshot, fs0, procs0) ==
    LET result0 == [success |-> FALSE, message |-> Message("", <<>>, ""),
                    execution_time |-> 0, error |-> None, screenshot |-> None]
        h == IF "action" \notin DOMAIN it THEN Raise("KeyError: 'action'", fs0, procs0)
             ELSE IF it.action = "open_application" THEN _execute_app_launch(it, fault, pf, fs0, procs0)
             ELSE IF it.action = "file_operation" THEN _execute_file_operation(it, fault, pf, fs0, procs0)
             ELSE IF it.action = "system_control" THEN _execute_system_control(it, fault, pf, fs0, procs0)
             ELSE IF it.action = "content_creation" THEN _execute_content_creation(it, fault, pf, fs0, procs0)
             ELSE IF "original_command" \notin DOMAIN it
             THEN Raise("KeyError: 'original_command'", fs0, procs0)
             ELSE Return([result0 EXCEPT !.message =
                            Message("Unknown command", it.original_command, "")],
                         fs0, procs0)
        in_handler == "action" \in DOMAIN it /\ it.action \in HandlerActions
    IN  [result |-> IF h.exc = None THEN ("execution_time" :> t) @@ h.ret ELSE result0,
         fs |-> h.fs, procs |-> h.procs, raised |-> h.exc, captured |-> FALSE,
         handler_fault |->
            IF in_handler /\ h.exc # None THEN [text |-> h.exc, escaped |-> TRUE]
            ELSE IF in_handler /\ h.caught # None THEN [text |-> h.caught, escaped |-> FALSE]
            ELSE NoFault]

\* execute_intent: [result, fs, procs, raised, captured, handler_fault]; t is the
\* measured duration, shot what _capture_screenshot returns
execute_intent(it, fault, t, shot, pf, config_screenshot, fs0, procs0) ==
    LET result0 == [success |-> FALSE, message |-> Message("", <<>>, ""),
                    execution_time |-> 0, error |-> None, screenshot |-> None]
        unknown ==
            IF "original_command" \notin DOMAIN it
            THEN Raise("KeyError: 'original_command'", fs0, procs0)
            ELSE Return([result0 EXCEPT !.message =
                            Message("Unknown command", it.original_command, "")],
                        fs0, procs0)
        h == IF "action" \notin DOMAIN it THEN Raise("KeyError: 'action'", fs0, procs0)
             ELSE IF it.action = "open_application" THEN _execute_app_launch(it, fault, pf, fs0, procs0)
             ELSE IF it.action = "file_operation" THEN _execute_file_operation(it, fault, pf, fs0, procs0)
             ELSE IF it.action = "system_control" THEN _execute_system_control(it, fault, pf, fs0, procs0)
             ELSE IF it.action = "content_creation" THEN _execute_content_creation(it, fault, pf, fs0, procs0)
             ELSE unknown
        in_handler == "action" \in DOMAIN it /\ it.action \in HandlerActions
    IN  IF h.exc = None
        THEN [result |-> ("execution_time" :> t) @@ h.ret,
              fs |-> h.fs, procs |-> h.procs, raised |-> None, captured |-> FALSE,
              handler_fault |-> IF in_handler /\ h.caught # None
                                THEN [text |-> h.caught, escaped |-> FALSE]
                                ELSE NoFault]
        ELSE [result |-> [result0 EXCEPT !.error = h.exc,
                                         !.execution_time = t,
                                         !.screenshot = error_capture(config_screenshot, shot).screenshot],
              fs |-> h.fs, procs |-> h.procs, raised |-> None,
              captured |-> error_capture(config_screenshot, shot).called,
              handler_fault |-> IF in_handler THEN [text |-> h.exc, escaped |-> TRUE]
                                ELSE NoFault]

---------------------------------------------------------------------------
(* SpecExec: execute_intent applied to well-formed and malformed intents. *)

ExecCommands == SampleCommands \cup { <<"c", "r", "e", "a", "t", "e">>, <<"c", "r", "e", "a", "t", "e", " ", "f", "i", "l", "e", " ", "x", ".", "t", "x", "t">> }

\* the intent without one of its keys
without(it, key) == [k \in DOMAIN it \ {key} |-> it[k]]

ExecIntents ==
    LET parsed == {parse_command(c) : c \in ExecCommands}
    IN  parsed
        \cup {[(unknown_intent(<<"o", "p", "e", "n", " ", "n", "o", "n", "e", "x", "i", "s", "t", "e", "n", "t", "_", "a", "p", "p">>)) EXCEPT
                    !.action = "open_application", !.target = <<"n", "o", "n", "e", "x", "i", "s", "t", "e", "n", "t", "_", "a", "p", "p">>,
                    !.confidence = 90]}
        \cup {without(it, key) : it \in parsed,
                key \in {"action", "target", "parameters", "original_command"}}

InitialFileSystems ==
    { NoParameters,
      <<"x", ".", "t", "x", "t">> :> File(<<"S", "a", "m", "p", "l", "e", " ", "c", "o", "n", "t", "e", "n", "t">>),
      <<"x", ".", "t", "x", "t">> :> Directory,
      (<<"u", "n", "t", "i", "t", "l", "e", "d", ".", "t", "x", "t">> :> File(<<"S", "a", "m", "p", "l", "e", " ", "c", "o", "n", "t", "e", "n", "t">>)) @@ (<<"t", "e", "s", "t", ".", "t", "x", "t">> :> File(<<>>)) }

InitExec ==
    /\ command = <<>>
    /\ intent \in ExecIntents
    /\ platform \in Platforms
    /\ screenshot_on_error \in BOOLEAN
    /\ fs \in InitialFileSystems
    /\ procs = <<>>
    /\ result = NoResult
    /\ raised = NoException
    /\ handler_fault = NoFault
    /\ capture_calls = 0
    /\ execution_metrics = InitialMetrics
    /\ log_file = NoFile
    /\ response = NoResponse
    /\ dispatched = <<>>
    /\ calls = 0
    /\ appended = 0
    /\ steps = <<>>
    /\ loop = NoLoop
    /\ MonitorIdle
    /\ old_log = NoFile
    /\ data = <<>>
    /\ metrics = NoMetrics
    /\ dashboard = NoDashboard

ExecuteIntent ==
    /\ result = NoResult
    /\ \E fault \in OSFaults, t \in ExecTimes, shot \in {None, ScreenshotPath} :
          LET out == execute_intent(intent, fault, t, shot, platform,
                                    screenshot_on_error, fs, procs)
          IN  /\ result' = out.result
              /\ fs' = out.fs
              /\ procs' = out.procs
              /\ raised' = out.raised
              /\ handler_fault' = out.handler_fault
              /\ capture_calls' = capture_calls + (IF out.captured THEN 1 ELSE 0)
    /\ UNCHANGED <<nluVars, envVars, pipelineVars, collectorVars, loopVars, monitorVars>>

NextExec == ExecuteIntent

SpecExec == InitExec /\ [][NextExec]_vars

---------------------------------------------------------------------------
(* Exact fractions, for the averages and rates Python computes as floats. *)

RECURSIVE gcd(_, _)
gcd(a, b) == IF b = 0 THEN a ELSE gcd(b, a % b)

\* num / den in lowest terms (den > 0, num >= 0)
Frac(num, den) ==
    LET g == gcd(num, den)
    IN  [num |-> num \div g, den |-> den \div g]

---------------------------------------------------------------------------
(* MetricsCollector *)

\* the file could not be parsed: json.load raises
Unreadable == [exists |-> TRUE, valid |-> FALSE, records |-> <<>>]
LogFile(records) == [exists |-> TRUE, valid |-> TRUE, records |-> records]

\* collect_execution_data over the files in glob order; a file json.load
\* rejects is skipped
RECURSIVE collect_execution_data(_)
collect_execution_data(files) ==
    IF files = <<>> THEN <<>>
    ELSE (IF files[1].exists /\ files[1].valid THEN files[1].records ELSE <<>>)
         \o collect_execution_data(Tail(files))

RECURSIVE Sum(_)
Sum(seq) == IF seq = <<>> THEN 0 ELSE seq[1] + Sum(Tail(seq))

\* the number of elements of seq that satisfy P
Count(seq, P(_)) == Cardinality({i \in 1..Len(seq) : P(seq[i])})

\* d.get('result', {}).get('success', False)
record_success(d) == get(get(d, "result", NoParameters), "success", FALSE)

\* d.get('intent', {}).get('action', default)
record_action(d, default) == get(get(d, "intent", NoParameters), "action", default)

\* [d.get('execution_time', 0) for d in data if 'execution_time' in d]
RECURSIVE response_times(_)
response_times(records) ==
    IF records = <<>> THEN <<>>
    ELSE (IF "execution_time" \in DOMAIN records[1]
          THEN <<records[1].execution_time>> ELSE <<>>)
         \o response_times(Tail(records))

RECURSIVE times_or_zero(_)
times_or_zero(records) ==
    IF records = <<>> THEN <<>>
    ELSE <<get(records[1], "execution_time", 0)>> \o times_or_zero(Tail(records))

\* mutant: each bucket counts only its own interval
response_time_distribution_disjoint(times) ==
    [under_1s |-> Count(times, LAMBDA t : t < 1),
     under_3s |-> Count(times, LAMBDA t : 1 <= t /\ t < 3),
     under_5s |-> Count(times, LAMBDA t : 3 <= t /\ t < 5),
     over_5s |-> Count(times, LAMBDA t : t >= 5)]

\* mutant: a time of exactly five seconds falls into no bucket
response_time_distribution_strict_over(times) ==
    [under_1s |-> Count(times, LAMBDA t : t < 1),
     under_3s |-> Count(times, LAMBDA t : t < 3),
     under_5s |-> Count(times, LAMBDA t : t < 5),
     over_5s |-> Count(times, LAMBDA t : t > 5)]

\* 'response_time_distribution'
response_time_distribution(times) ==
    [under_1s |-> Count(times, LAMBDA t : t < 1),
     under_3s |-> Count(times, LAMBDA t : t < 3),
     under_5s |-> Count(times, LAMBDA t : t < 5),
     over_5s |-> Count(times, LAMBDA t : t >= 5)]

\* calculate_performance_metrics; {} for an empty record list.  The
\* time-window part of the snapshot is left out.
calculate_performance_metrics(records) ==
    IF records = <<>> THEN NoParameters
    ELSE
    LET total_commands == Len(records)
        successful_commands == Count(records, LAMBDA d : record_success(d))
        failed_commands == total_commands - successful_commands
        times == response_times(records)
        correct_intents ==
            Count(records, LAMBDA d : get(get(d, "intent", NoParameters), "confidence", 0) > 80)
        command_categories ==
            [c \in {record_action(records[i], "unknown") : i \in 1..Len(records)} |->
                Count(records, LAMBDA d : record_action(d, "unknown") = c)]
        category_data(c) == SelectSeq(records, LAMBDA d : record_action(d, None) = c)
        category_performance ==
            [c \in DOMAIN command_categories |->
                LET cd == category_data(c)
                    category_success == Count(cd, LAMBDA d : record_success(d))
                IN  [total |-> Len(cd),
                     success |-> category_success,
                     success_rate |-> IF cd # <<>> THEN Frac(category_success * 100, Len(cd))
                                      ELSE Zero,
                     avg_response_time |-> IF cd # <<>> THEN Frac(Sum(times_or_zero(cd)), Len(cd))
                                           ELSE Zero]]
    IN  [overview |->
            [total_commands |-> total_commands,
             successful_commands |-> successful_commands,
             failed_commands |-> failed_commands,
             success_rate |-> Frac(successful_commands * 100, total_commands),
             average_response_time |-> IF times # <<>> THEN Frac(Sum(times), Len(times))
                                       ELSE Zero,
             intent_accuracy |-> Frac(correct_intents * 100, total_commands)],
         categories |-> command_categories,
         performance_by_category |-> category_performance,
         response_time_distribution |-> response_time_distribution(times)]

---------------------------------------------------------------------------
(* DashboardGenerator *)

\* "Calculate additional metrics": fast_response_rate
fast_response_rate(m) ==
    LET overview == get(m, "overview", NoParameters)
        response_dist == get(m, "response_time_distribution", NoParameters)
    IN  IF get(overview, "total_commands", 0) > 0
        THEN Frac((get(response_dist, "under_1s", 0) + get(response_dist, "under_3s", 0)) * 100,
                  get(overview, "total_commands", 1))
        ELSE Zero

\* generate_html_dashboard: the values it computes for the page's template,
\* and the exception that leaves it: html_template.format raises KeyError on
\* the single braces of the template's style sheet, whatever the values are
generate_html_dashboard(m) ==
    LET overview == get(m, "overview", NoParameters)
        response_dist == get(m, "response_time_distribution", NoParameters)
    IN  [total_commands |-> get(overview, "total_commands", 0),
         fast_response_rate |-> fast_response_rate(m),
         under_1s |-> get(response_dist, "under_1s", 0),
         under_1to3s |-> get(response_dist, "under_3s", 0) - get(response_dist, "under_1s", 0),
         under_3to5s |-> get(response_dist, "under_5s", 0) - get(response_dist, "under_3s", 0),
         over_5s |-> get(response_dist, "over_5s", 0),
         raised |-> "KeyError"]

---------------------------------------------------------------------------
(* SpecMetrics: calculate_performance_metrics applied to record lists. *)

\* the record lists have at most MaxRecords records
MaxRecords == 2

\* log records as any writer may have left them: each part present or not
RecordShapes ==
    { r @@ t @@ i :
        r \in { NoParameters,
                "result" :> [success |-> TRUE],
                "result" :> [success |-> FALSE] },
        t \in { NoParameters } \cup { "execution_time" :> s : s \in {0, 1, 4, 5} },
        i \in { NoParameters,
                "intent" :> [action |-> "open_application", confidence |-> 90],
                "intent" :> [action |-> "file_operation", confidence |-> 80] } }

RecordLists == UNION {[1..n -> RecordShapes] : n \in 0..MaxRecords}

InitMetricsSpec ==
    /\ command = <<>>
    /\ intent = NoIntent
    /\ Idle
    /\ data \in RecordLists

Calculate ==
    /\ metrics = NoMetrics
    /\ metrics' = calculate_performance_metrics(data)
    /\ UNCHANGED <<nluVars, envVars, execVars, pipelineVars, old_log, data, dashboard, loopVars, monitorVars>>

GenerateDashboard ==
    /\ metrics # NoMetrics
    /\ dashboard = NoDashboard
    /\ dashboard' = generate_html_dashboard(metrics)
    /\ UNCHANGED <<nluVars, envVars, execVars, pipelineVars, old_log, data, metrics, loopVars, monitorVars>>

NextMetrics == Calculate \/ GenerateDashboard

SpecMetrics == InitMetricsSpec /\ [][NextMetrics]_vars

---------------------------------------------------------------------------
(* SmartOSInterface *)

\* process_command is called at most MaxCommands times
MaxCommands == 3

\* fault of the log file: json.dump raises after the file was opened for
\* writing ("write"), which leaves a file json.load rejects from then on
LogFaults == {"none", "write"}

\* log_execution_result: the day's file afterwards, and the exception that
\* leaves the call (None when it returns)
log_execution_result(file, log_entry, logfault) ==
    IF file.exists /\ ~file.valid
    THEN [file |-> file, exc |-> "log read failed"]
    ELSE IF logfault = "write"
    THEN [file |-> Unreadable, exc |-> "log write failed"]
    ELSE [file |-> LogFile(Append(file.records, log_entry)), exc |-> None]

\* mutant: only results that carry an error count as failed
update_metrics_errors_only(m, res) ==
    LET total == m.total_commands + 1
        avg == m.average_response_time
        total_time == Frac(avg.num * (total - 1) + res.execution_time * avg.den, avg.den)
    IN  [total_commands |-> total,
         successful_commands |-> m.successful_commands + (IF res.success THEN 1 ELSE 0),
         failed_commands |-> m.failed_commands +
                             (IF get(res, "error", None) # None THEN 1 ELSE 0),
         average_response_time |-> Frac(total_time.num, total_time.den * total)]

\* mutant: the old average is weighted with the new count
update_metrics_wrong_weight(m, res) ==
    LET total == m.total_commands + 1
        avg == m.average_response_time
        total_time == Frac(avg.num * total + res.execution_time * avg.den, avg.den)
    IN  [total_commands |-> total,
         successful_commands |-> m.successful_commands + (IF res.success THEN 1 ELSE 0),
         failed_commands |-> m.failed_commands + (IF res.success THEN 0 ELSE 1),
         average_response_time |-> Frac(total_time.num, total_time.den * total)]

\* the metrics after a dispatch that returned res
update_metrics(m, res) ==
    LET total == m.total_commands + 1
        avg == m.average_response_time
        \* total_time = average_response_time * (total_commands - 1) + execution_time
        total_time == Frac(avg.num * (total - 1) + res.execution_time * avg.den, avg.den)
    IN  [total_commands |-> total,
         successful_commands |-> m.successful_commands + (IF res.success THEN 1 ELSE 0),
         failed_commands |-> m.failed_commands + (IF res.success THEN 0 ELSE 1),
         average_response_time |-> Frac(total_time.num, total_time.den * total)]

\* mutant: the gate lets every intent through
low_confidence_never(it) == it.confidence < 0

\* mutant: the gate drops the intents without an action only
low_confidence_unknown_only(it) == it.action = "unknown"

\* the gate of process_command: intent["confidence"] < 0.5
low_confidence(it) == it.confidence < 50

PipelineCommands == { <<"o", "p", "e", "n", " ", "n", "o", "t", "e", "p", "a", "d">>, <<"a", "s", "d", "k", "j", " ", "q", "w", "o", "e", "i">> }

\* nlu.parse_command(command) for the commands given to process_command
parsed_commands == [c \in Commands |-> parse_command(c)]

\* process_command(text); fault, t, shot, logfault and speakfault are what
\* the environment does during the call (speakfault: self.speak raises, which
\* takes a voice engine)
process_command(text, fault, t, shot, logfault, speakfault) ==
    LET it == parsed_commands[text]
        out == execute_intent(it, fault, t, shot, platform, screenshot_on_error, fs, procs)
        res == out.result
        log_entry == [timestamp |-> calls + 1, command |-> text, intent |-> it,
                      result |-> res, execution_time |-> res.execution_time]
        logged == log_execution_result(log_file, log_entry, logfault)
    IN  /\ command' = text
        /\ intent' = it
        /\ calls' = calls + 1
        /\ IF low_confidence(it)
           THEN /\ response' = IF speakfault THEN response
                               ELSE [kind |-> "clarify",
                                     message |-> Message("I'm not sure how to handle", text, "")]
                /\ raised' = IF speakfault THEN "speak failed" ELSE NoException
                /\ steps' = <<"classify">>
                /\ UNCHANGED <<fs, procs, result, handler_fault, capture_calls,
                               execution_metrics, log_file, dispatched, appended>>
           ELSE /\ result' = res
                /\ fs' = out.fs
                /\ procs' = out.procs
                /\ handler_fault' = out.handler_fault
                /\ capture_calls' = capture_calls + (IF out.captured THEN 1 ELSE 0)
                /\ steps' = <<"classify", "dispatch", "metrics", "log">>
                /\ appended' = appended + (IF logged.exc = None THEN 1 ELSE 0)
                /\ execution_metrics' = update_metrics(execution_metrics, res)
                /\ dispatched' = Append(dispatched, res.execution_time)
                /\ log_file' = logged.file
                /\ raised' = IF logged.exc # None THEN logged.exc
                             ELSE IF speakfault THEN "speak failed" ELSE NoException
                /\ response' = IF logged.exc # None \/ speakfault THEN response
                               ELSE IF res.success
                               THEN [kind |-> "done", message |-> res.message]
                               ELSE [kind |-> "failed", message |-> res.message]

---------------------------------------------------------------------------
(* Spec: the command pipeline, and the collector reading its log. *)

PipelineTimes == {2, 4, 6}

\* the faults that can reach the handlers of the pipeline's commands
PipelineFaults == {"none", "launch"}

\* what an earlier day's log file may hold
OldLogs ==
    { NoFile,
      LogFile(<< "result" :> [success |-> TRUE],
                 ("execution_time" :> 1) @@ ("intent" :> [action |-> "system_control"]) >>) }

Init ==
    /\ command = <<>>
    /\ intent = NoIntent
    /\ platform \in Platforms
    /\ screenshot_on_error = TRUE
    /\ fs = (<<"x", ".", "t", "x", "t">> :> File(<<"S", "a", "m", "p", "l", "e", " ", "c", "o", "n", "t", "e", "n", "t">>))
    /\ procs = <<>>
    /\ result = NoResult
    /\ raised = NoException
    /\ handler_fault = NoFault
    /\ capture_calls = 0
    /\ execution_metrics = InitialMetrics
    /\ log_file = NoFile
    /\ response = NoResponse
    /\ dispatched = <<>>
    /\ calls = 0
    /\ appended = 0
    /\ steps = <<>>
    /\ loop = NoLoop
    /\ MonitorIdle
    /\ old_log \in OldLogs
    /\ data = <<>>
    /\ metrics = NoMetrics
    /\ dashboard = NoDashboard

ProcessCommand ==
    /\ calls < MaxCommands
    /\ \E text \in PipelineCommands, fault \in PipelineFaults, t \in PipelineTimes,
          shot \in {None, ScreenshotPath}, logfault \in LogFaults :
            process_command(text, fault, t, shot, logfault, FALSE)
    /\ UNCHANGED <<envVars, collectorVars, loopVars, monitorVars>>

\* one pass of the monitor loop or of the dashboard's main: collect,
\* calculate, generate the dashboard (whose exception the monitor loop
\* catches and main reports)
CollectAndCalculate ==
    /\ \E files \in {<<old_log, log_file>>, <<log_file, old_log>>} :
          metrics' = calculate_performance_metrics(collect_execution_data(files))
    /\ dashboard' = generate_html_dashboard(metrics')
    /\ UNCHANGED <<nluVars, envVars, execVars, pipelineVars, old_log, data, loopVars, monitorVars>>

Next == ProcessCommand \/ CollectAndCalculate

Spec == Init /\ [][Next]_vars

---------------------------------------------------------------------------
(* SpecLoop: the interaction loops around process_command. *)

\* command.lower() in ["exit", "quit", "stop"]
is_exit_command(text) == lower(text) \in { <<"e", "x", "i", "t">>, <<"q", "u", "i", "t">>, <<"s", "t", "o", "p">> }

\* what the user types or says in one pass of a loop
TypedInputs == PipelineCommands \cup { <<>>, <<"e", "x", "i", "t">>, <<"Q", "u", "i", "t">>, <<" ", "S", "T", "O", "P", " ">> }
SpokenInputs == PipelineCommands \cup { <<>>, <<"e", "x", "i", "t">>, <<"Q", "u", "i", "t">>, <<"S", "T", "O", "P">> }

\* the loop after a break, or after an exception left it
Ended(by) == [loop EXCEPT !.running = FALSE, !.ended_by = by, !.pending = <<>>]

LoopFrame == UNCHANGED <<nluVars, execVars, pipelineVars>>

\* the head of one pass of the while loop of start_text_loop, up to the call
\* of process_command; interrupt: KeyboardInterrupt arrives while input() waits
TextLoopPass ==
    /\ loop.mode = "text"
    /\ loop.running
    /\ loop.pending = <<>>
    /\ \E typed \in TypedInputs, interrupt \in BOOLEAN :
          LET text == strip(typed)
          IN  IF interrupt THEN loop' = Ended("interrupt")
              ELSE IF text = <<>> THEN UNCHANGED loop
              ELSE IF is_exit_command(text) THEN loop' = Ended("exit")
              ELSE /\ calls < MaxCommands
                   /\ loop' = [loop EXCEPT !.pending = text]
    /\ LoopFrame
    /\ UNCHANGED <<envVars, collectorVars, monitorVars>>

\* the head of one pass of the while loop of start_voice_loop; heard is what
\* listen_for_command returns (<<>> for None), speakfault says whether
\* self.speak("Goodbye!") raises, handlerfault whether the call of self.speak
\* in the except clause does ("exit fault": the exit command was given and
\* the loop is left by the exception instead of the break)
VoiceLoopPass ==
    /\ loop.mode = "voice"
    /\ loop.running
    /\ loop.pending = <<>>
    /\ \E heard \in SpokenInputs, interrupt \in BOOLEAN,
          speakfault \in BOOLEAN, handlerfault \in BOOLEAN :
          IF interrupt THEN loop' = Ended("interrupt")
          ELSE IF heard = <<>> THEN UNCHANGED loop
          ELSE IF is_exit_command(heard)
          THEN loop' = IF ~speakfault THEN Ended("exit")
                       ELSE IF handlerfault THEN Ended("exit fault")
                       ELSE loop
          ELSE /\ calls < MaxCommands
               /\ loop' = [loop EXCEPT !.pending = heard]
    /\ LoopFrame
    /\ UNCHANGED <<envVars, collectorVars, monitorVars>>

\* self.process_command(command) in either loop, and the except clause around
\* it: the text loop logs and prints, the voice loop logs and calls self.speak
LoopProcessCommand ==
    /\ loop.running
    /\ loop.pending # <<>>
    /\ \E fault \in PipelineFaults, logfault \in LogFaults,
          speakfault \in BOOLEAN, handlerfault \in BOOLEAN :
          /\ speakfault => loop.voice_enabled
          /\ handlerfault => loop.mode = "voice"
          /\ process_command(loop.pending, fault, 2, None, logfault, speakfault)
          /\ loop' = IF loop.mode = "voice" /\ raised' # NoException /\ handlerfault
                     THEN Ended("fault")
                     ELSE [loop EXCEPT !.pending = <<>>]
    /\ UNCHANGED <<envVars, collectorVars, monitorVars>>

InitLoop ==
    /\ command = <<>>
    /\ intent = NoIntent
    /\ platform = "linux"
    /\ screenshot_on_error = TRUE
    /\ fs = NoParameters
    /\ procs = <<>>
    /\ result = NoResult
    /\ raised = NoException
    /\ handler_fault = NoFault
    /\ capture_calls = 0
    /\ execution_metrics = InitialMetrics
    /\ log_file = NoFile
    /\ response = NoResponse
    /\ dispatched = <<>>
    /\ calls = 0
    /\ appended = 0
    /\ steps = <<>>
    /\ old_log = NoFile
    /\ data = <<>>
    /\ metrics = NoMetrics
    /\ dashboard = NoDashboard
    /\ MonitorIdle
    /\ loop \in { [mode |-> "text", voice_enabled |-> FALSE, running |-> TRUE, ended_by |-> "none", pending |-> <<>>],
                  [mode |-> "text", voice_enabled |-> TRUE, running |-> TRUE, ended_by |-> "none", pending |-> <<>>],
                  [mode |-> "voice", voice_enabled |-> TRUE, running |-> TRUE, ended_by |-> "none", pending |-> <<>>] }

NextLoop == TextLoopPass \/ VoiceLoopPass \/ LoopProcessCommand

SpecLoop == InitLoop /\ [][NextLoop]_vars

---------------------------------------------------------------------------
(* SpecGate: the first command of a session, over all the texts of         *)
(* SpecParse, to see which intents reach the dispatcher.                   *)

ProcessFirstCommand ==
    /\ calls = 0
    /\ \E text \in Commands, fault \in OSFaults :
          process_command(text, fault, 2, None, "none", FALSE)
    /\ UNCHANGED <<envVars, collectorVars, loopVars, monitorVars>>

NextGate == ProcessFirstCommand

SpecGate == Init /\ [][NextGate]_vars

---------------------------------------------------------------------------
(* SpecMonitor: the background monitor next to the pipeline's log writes.  *)
(* The log file is the sequence of the tokens of its JSON text; the writer *)
(* truncates it and writes token after token, the reader reads token after *)
(* token until it meets the end of the file.                               *)

\* log_execution_result is called at most MaxAppends times
MaxAppends == 2

Punct(kind) == [kind |-> kind, key |-> "", success |-> FALSE, time |-> 0]
Field(key, success, time) == [kind |-> "field", key |-> key, success |-> success, time |-> time]

\* the log entry of the i-th dispatched command
LogRecord(i) ==
    ("result" :> [success |-> (i % 2 = 1)]) @@ ("execution_time" :> 2 * i)

\* json.dump of one log entry, of the list of entries
dump_record(d) ==
    <<Punct("{"), Field("result", d.result.success, 0),
      Field("execution_time", FALSE, d.execution_time), Punct("}")>>

RECURSIVE dump_records(_)
dump_records(logs) ==
    IF logs = <<>> THEN <<>>
    ELSE IF Len(logs) = 1 THEN dump_record(logs[1])
    ELSE dump_record(logs[1]) \o <<Punct(",")>> \o dump_records(Tail(logs))

json_dump(logs) == <<Punct("[")>> \o dump_records(logs) \o <<Punct("]")>>

\* the dict a sequence of field tokens stands for
RECURSIVE record_of(_)
record_of(fields) ==
    IF fields = <<>> THEN NoParameters
    ELSE LET f == fields[Len(fields)]
             v == IF f.key = "result" THEN [success |-> f.success] ELSE f.time
         IN  (f.key :> v) @@ record_of(SubSeq(fields, 1, Len(fields) - 1))

JsonError == [ok |-> FALSE, is_list |-> FALSE, value |-> <<>>]

\* mutant: a text that ends early is closed where it ends
RECURSIVE json_parse_lenient(_, _, _, _, _)
json_parse_lenient(ts, i, st, acc, cur) ==
    IF i > Len(ts)
    THEN IF st = "record" THEN [ok |-> TRUE, is_list |-> TRUE, value |-> Append(acc, record_of(cur))]
         ELSE [ok |-> TRUE, is_list |-> TRUE, value |-> acc]
    ELSE LET k == ts[i].kind
         IN  IF st = "start" /\ k = "[" THEN json_parse_lenient(ts, i + 1, "first", acc, cur)
             ELSE IF st \in {"first", "next"} /\ k = "{" THEN json_parse_lenient(ts, i + 1, "record", acc, <<>>)
             ELSE IF st = "first" /\ k = "]" THEN json_parse_lenient(ts, i + 1, "done", acc, cur)
             ELSE IF st = "record" /\ k = "field"
             THEN json_parse_lenient(ts, i + 1, "record", acc, Append(cur, ts[i]))
             ELSE IF st = "record" /\ k = "}"
             THEN json_parse_lenient(ts, i + 1, "after", Append(acc, record_of(cur)), <<>>)
             ELSE IF st = "after" /\ k = "," THEN json_parse_lenient(ts, i + 1, "next", acc, cur)
             ELSE IF st = "after" /\ k = "]" THEN json_parse_lenient(ts, i + 1, "done", acc, cur)
             ELSE JsonError

\* json.load of a token sequence read from position i on, in parser state st:
\* a list of dicts "[ {..} , {..} ]" or a single dict "{..}", and nothing after
RECURSIVE json_parse(_, _, _, _, _)
json_parse(ts, i, st, acc, cur) ==
    IF i > Len(ts)
    THEN IF st = "done" THEN [ok |-> TRUE, is_list |-> TRUE, value |-> acc]
         ELSE IF st = "done_dict" THEN [ok |-> TRUE, is_list |-> FALSE, value |-> acc]
         ELSE JsonError
    ELSE LET k == ts[i].kind
         IN  IF st = "start" /\ k = "[" THEN json_parse(ts, i + 1, "first", acc, cur)
             ELSE IF st = "start" /\ k = "{" THEN json_parse(ts, i + 1, "dict", acc, <<>>)
             ELSE IF st = "dict" /\ k = "field" THEN json_parse(ts, i + 1, "dict", acc, Append(cur, ts[i]))
             ELSE IF st = "dict" /\ k = "}" THEN json_parse(ts, i + 1, "done_dict", <<record_of(cur)>>, <<>>)
             ELSE IF st \in {"first", "next"} /\ k = "{" THEN json_parse(ts, i + 1, "record", acc, <<>>)
             ELSE IF st = "first" /\ k = "]" THEN json_parse(ts, i + 1, "done", acc, cur)
             ELSE IF st = "record" /\ k = "field"
             THEN json_parse(ts, i + 1, "record", acc, Append(cur, ts[i]))
             ELSE IF st = "record" /\ k = "}"
             THEN json_parse(ts, i + 1, "after", Append(acc, record_of(cur)), <<>>)
             ELSE IF st = "after" /\ k = "," THEN json_parse(ts, i + 1, "next", acc, cur)
             ELSE IF st = "after" /\ k = "]" THEN json_parse(ts, i + 1, "done", acc, cur)
             ELSE JsonError

json_load(ts) == json_parse(ts, 1, "start", <<>>, <<>>)

\* what collect_execution_data adds to all_data for a file whose text is ts
collected(ts) ==
    LET parsed == json_load(ts)
    IN  IF parsed.ok THEN parsed.value ELSE <<>>

\* the number of whole records among the first n tokens of a JSON text
whole_records(ts, n) == Cardinality({i \in 1..n : ts[i].kind = "}"})

\* log_execution_result, lines 561-581: read the file, append the entry
BeginAppend ==
    /\ writer.pc = "idle"
    /\ appended < MaxAppends
    /\ LET old == IF disk.exists THEN json_load(disk.tokens) ELSE [ok |-> TRUE, is_list |-> TRUE, value |-> <<>>]
       IN  IF old.ok
           THEN writer' = [writer EXCEPT !.pc = "open",
                                         !.logs = Append(old.value, LogRecord(Len(old.value) + 1)),
                                         !.pos = 0]
           ELSE UNCHANGED writer
    /\ UNCHANGED <<monitoring, monitor_thread, controller, disk, reader, read_began>>
    /\ UNCHANGED <<nluVars, envVars, execVars, pipelineVars, collectorVars, loopVars>>

\* open(log_file, 'w') truncates the file
OpenForWrite ==
    /\ writer.pc = "open"
    /\ disk' = [exists |-> TRUE, tokens |-> <<>>]
    /\ writer' = [writer EXCEPT !.pc = "write"]
    /\ UNCHANGED <<monitoring, monitor_thread, controller, reader, read_began>>
    /\ UNCHANGED <<nluVars, envVars, execVars, pipelineVars, collectorVars, loopVars>>

\* json.dump writes the next token
WriteToken ==
    /\ writer.pc = "write"
    /\ writer.pos < Len(json_dump(writer.logs))
    /\ disk' = [disk EXCEPT !.tokens = Append(@, json_dump(writer.logs)[writer.pos + 1])]
    /\ writer' = [writer EXCEPT !.pos = @ + 1,
                                !.whole = Max({@, whole_records(json_dump(writer.logs),
                                                                writer.pos + 1)})]
    /\ UNCHANGED <<monitoring, monitor_thread, controller, reader, read_began>>
    /\ UNCHANGED <<nluVars, envVars, execVars, pipelineVars, collectorVars, loopVars>>

\* the with block closes the file
CloseAfterWrite ==
    /\ writer.pc = "write"
    /\ writer.pos = Len(json_dump(writer.logs))
    /\ writer' = [writer EXCEPT !.pc = "idle"]
    /\ appended' = appended + 1
    /\ UNCHANGED <<monitoring, monitor_thread, controller, disk, reader, read_began>>
    /\ UNCHANGED <<nluVars, envVars, execVars, collectorVars, loopVars>>
    /\ UNCHANGED <<execution_metrics, log_file, response, dispatched, calls, steps>>

MonitorFrame ==
    /\ UNCHANGED <<monitoring, controller, disk, writer>>
    /\ UNCHANGED <<nluVars, envVars, execVars, pipelineVars, loopVars, old_log>>

\* mutant: the loop does not look at the flag
loop_continues_always(flag) == TRUE

\* while self.monitoring
loop_continues(flag) == flag

CheckFlag ==
    /\ monitor_thread = "check"
    /\ monitor_thread' = IF loop_continues(monitoring) THEN "collect" ELSE "done"
    /\ UNCHANGED <<reader, read_began, data, metrics, dashboard>>
    /\ MonitorFrame

\* collect_execution_data: glob and open
OpenForRead ==
    /\ monitor_thread = "collect"
    /\ reader' = <<>>
    /\ read_began' = appended
    /\ IF disk.exists
       THEN monitor_thread' = "read" /\ UNCHANGED data
       ELSE monitor_thread' = "calculate" /\ data' = <<>>
    /\ UNCHANGED <<metrics, dashboard>>
    /\ MonitorFrame

\* collect_execution_data: json.load reads the next token, or meets the end
\* of the file and parses what it read
ReadToken ==
    /\ monitor_thread = "read"
    /\ IF Len(reader) < Len(disk.tokens)
       THEN /\ reader' = Append(reader, disk.tokens[Len(reader) + 1])
            /\ UNCHANGED <<monitor_thread, data>>
       ELSE /\ data' = collected(reader)
            /\ monitor_thread' = "calculate"
            /\ UNCHANGED reader
    /\ UNCHANGED <<read_began, metrics, dashboard>>
    /\ MonitorFrame

\* calculate_performance_metrics, dashboard, logging
CalculateSnapshot ==
    /\ monitor_thread = "calculate"
    /\ metrics' = calculate_performance_metrics(data)
    /\ dashboard' = generate_html_dashboard(metrics')
    /\ monitor_thread' = "sleep"
    /\ UNCHANGED <<reader, read_began, data>>
    /\ MonitorFrame

\* time.sleep(self.update_interval) returns
Sleep ==
    /\ monitor_thread = "sleep"
    /\ monitor_thread' = "check"
    /\ UNCHANGED <<reader, read_began, data, metrics, dashboard>>
    /\ MonitorFrame

MonitorThread == CheckFlag \/ OpenForRead \/ ReadToken \/ CalculateSnapshot \/ Sleep

ControllerFrame ==
    /\ UNCHANGED <<disk, writer, reader, read_began>>
    /\ UNCHANGED <<nluVars, envVars, execVars, pipelineVars, collectorVars, loopVars>>

\* the thread runs _monitor_loop: it was started and has not returned
thread_alive(thread) == thread \notin {"none", "done"}

\* start_monitoring; orphans counts the loops that were still running when
\* self.monitor_thread was given a new thread
start_monitoring ==
    /\ controller.pc \in {"idle", "started", "stopped"}
    /\ IF monitoring THEN UNCHANGED <<monitoring, monitor_thread, controller>>
       ELSE /\ monitoring' = TRUE
            /\ monitor_thread' = "check"
            /\ controller' = [controller EXCEPT
                                !.pc = "started",
                                !.orphans = @ + (IF thread_alive(monitor_thread) THEN 1 ELSE 0)]
    /\ ControllerFrame

\* stop_monitoring clears the flag (saw: where the thread stood then) and
\* joins the thread when there is one
stop_monitoring ==
    /\ controller.pc \in {"idle", "started", "stopped"}
    /\ monitoring' = FALSE
    /\ controller' = IF monitor_thread = "none" THEN controller
                     ELSE [controller EXCEPT !.pc = "joining", !.saw = monitor_thread]
    /\ UNCHANGED monitor_thread
    /\ ControllerFrame

\* mutant: the join does not wait for the thread
join_returns_at_once(thread) == TRUE

\* Thread.join() returns once the thread has terminated
join_returns(thread) == ~thread_alive(thread)

\* monitor_thread.join() returns
Join ==
    /\ controller.pc = "joining"
    /\ join_returns(monitor_thread)
    /\ controller' = [controller EXCEPT !.pc = "stopped"]
    /\ UNCHANGED <<monitoring, monitor_thread>>
    /\ ControllerFrame

InitMonitor ==
    /\ command = <<>>
    /\ intent = NoIntent
    /\ data = <<>>
    /\ Idle

NextMonitor ==
    \/ BeginAppend \/ OpenForWrite \/ WriteToken \/ CloseAfterWrite
    \/ CheckFlag \/ OpenForRead \/ ReadToken \/ CalculateSnapshot \/ Sleep
    \/ start_monitoring \/ stop_monitoring \/ Join

\* the thread of the monitor is scheduled, and so is the caller waiting in join
SpecMonitor ==
    InitMonitor /\ [][NextMonitor]_vars /\ WF_vars(MonitorThread) /\ WF_vars(Join)

---------------------------------------------------------------------------
(* Claims about parse_command (checked under SpecParse). *)

Parsed == intent # NoIntent

\* the text the rule groups are matched against
Folded == strip(lower(command))

\* the rule groups in their fixed order, with the action each one assigns
GroupKeys == <<"open_application", "file_operations", "system_control", "content_creation">>
GroupAction == <<"open_application", "file_operation", "system_control", "content_creation">>

\* a trigger keyword of group g, as declared, occurs in the folded text
KeywordOccurs(g) == AnyIn(intent_patterns[GroupKeys[g]].keywords, Folded)

\* a word of one of the content group's trigger phrases occurs in the folded text
ContentWordOccurs ==
    \E w \in {<<"w", "r", "i", "t", "e">>, <<"e", "s", "s", "a", "y">>, <<"c", "r", "e", "a", "t", "e">>, <<"d", "o", "c", "u", "m", "e", "n", "t">>, <<"c", "o", "m", "p", "o", "s", "e">>, <<"d", "r", "a", "f", "t">>} :
        In(w, Folded)

\* the labels of a group with their aliases, in declared order
GroupTargets(action) ==
    CASE action = "open_application" -> intent_patterns.open_application.apps
      [] action = "file_operation" -> intent_patterns.file_operations.actions
      [] action = "system_control" ->
            [i \in 1..Len(intent_patterns.system_control.keywords) |->
                [label |-> intent_patterns.system_control.keywords[i],
                 aliases |-> <<intent_patterns.system_control.keywords[i]>>]]
      [] action = "content_creation" ->
            [i \in 1..Len(intent_patterns.content_creation.types) |->
                [label |-> intent_patterns.content_creation.types[i],
                 aliases |-> <<intent_patterns.content_creation.types[i]>>]]

C8_Original ==
    (Parsed /\ \A g \in 1..4 : ~KeywordOccurs(g)) =>
        /\ intent.action = "unknown"
        /\ intent.confidence = 0
        /\ intent.target = <<>>
        /\ intent.parameters = NoParameters

\* C8 as amended: parse_command returns a complete intent for every text, and
\* when no application, file or system trigger keyword and no word of a
\* content trigger phrase occurs, the intent is unknown with confidence 0, an
\* empty target and no parameters.
C8_UnknownWhenNoTriggerWord ==
    Parsed =>
        /\ DOMAIN intent = {"action", "target", "parameters", "confidence", "original_command"}
        /\ (/\ \A g \in 1..3 : ~KeywordOccurs(g)
            /\ ~ContentWordOccurs)
              => /\ intent.action = "unknown"
                 /\ intent.confidence = 0
                 /\ intent.target = <<>>
                 /\ intent.parameters = NoParameters

C8_Witness ==
    /\ Parsed
    /\ command = <<"a", "s", "d", "k", "j", " ", "q", "w", "o", "e", "i">>
    /\ intent.action = "unknown"
    /\ intent.confidence = 0

\* C9: within the winning group the target is the first label, in declared
\* order, one of whose aliases occurs in the text, wherever the aliases occur:
\* "open notepad" gives notepad with confidence 0.90, and "launch calculator
\* then open notepad" gives notepad.
C9_FirstDeclaredTarget ==
    Parsed =>
        /\ intent.action \in {"open_application", "file_operation", "system_control", "content_creation"} =>
              LET es == GroupTargets(intent.action)
              IN  (\E i \in 1..Len(es) : AnyIn(es[i].aliases, Folded)) =>
                      \E i \in 1..Len(es) :
                          /\ intent.target = es[i].label
                          /\ AnyIn(es[i].aliases, Folded)
                          /\ \A j \in 1..(i - 1) : ~AnyIn(es[j].aliases, Folded)
        /\ command = <<"o", "p", "e", "n", " ", "n", "o", "t", "e", "p", "a", "d">> =>
              /\ intent.action = "open_application"
              /\ intent.target = <<"n", "o", "t", "e", "p", "a", "d">>
              /\ intent.confidence = 90
        /\ command = <<"l", "a", "u", "n", "c", "h", " ", "c", "a", "l", "c", "u", "l", "a", "t", "o", "r", " ", "t", "h", "e", "n", " ", "o", "p", "e", "n", " ", "n", "o", "t", "e", "p", "a", "d">> =>
              intent.target = <<"n", "o", "t", "e", "p", "a", "d">>

C9_Witness ==
    /\ Parsed
    /\ command = <<"l", "a", "u", "n", "c", "h", " ", "c", "a", "l", "c", "u", "l", "a", "t", "o", "r", " ", "t", "h", "e", "n", " ", "o", "p", "e", "n", " ", "n", "o", "t", "e", "p", "a", "d">>
    /\ find(Folded, <<"c", "a", "l", "c", "u", "l", "a", "t", "o", "r">>) < find(Folded, <<"n", "o", "t", "e", "p", "a", "d">>)
    /\ intent.target = <<"n", "o", "t", "e", "p", "a", "d">>

\* a trigger of group g selected the group, and no alias of its targets occurs
TriggerWithoutAlias(g) ==
    /\ Parsed
    /\ intent.action = GroupAction[g]
    /\ \A i \in 1..Len(GroupTargets(GroupAction[g])) :
          ~AnyIn(GroupTargets(GroupAction[g])[i].aliases, Folded)

BaseConfidence == <<90, 80, 85, 75>>

\* C10 as stated: a trigger without any alias gives the group's action, an
\* empty target and the group's base confidence.
C10_Original ==
    \A g \in 1..4 : TriggerWithoutAlias(g) =>
        /\ intent.target = <<>>
        /\ intent.confidence = BaseConfidence[g]

\* C10 as amended: a trigger without any alias gives the group's action, an
\* empty target and confidence 0; the group's base confidence is assigned
\* only together with a target.
C10_NoAliasNoConfidence ==
    /\ \A g \in 1..4 : TriggerWithoutAlias(g) =>
          /\ intent.target = <<>>
          /\ intent.confidence = 0
    /\ Parsed => \A g \in 1..4 :
          (intent.action = GroupAction[g] /\ intent.target # <<>>)
              => intent.confidence = BaseConfidence[g]

C10_Witness ==
    /\ TriggerWithoutAlias(1)
    /\ command = <<"o", "p", "e", "n", " ", "a", "s", "d", "k", "j">>
    /\ intent.target = <<>>
    /\ intent.confidence = 0

---------------------------------------------------------------------------
(* Claims about execute_intent (checked under SpecExec). *)

Executed == result # NoResult

\* the step in which execute_intent runs
Dispatch == result = NoResult /\ result' # NoResult

IntentKeys == {"action", "target", "parameters", "confidence", "original_command"}

\* result["error"] when the key is there, None otherwise
ErrorOf(r) == get(r, "error", None)

\* C2 as stated: whatever fault is raised inside a handler, execute_intent
\* returns with success=false and error set to the fault's text, and no
\* exception leaves execute_intent.
C2_Original ==
    Executed =>
        /\ raised = NoException
        /\ handler_fault.text # None =>
              /\ result.success = FALSE
              /\ ErrorOf(result) = handler_fault.text

\* C2 as amended: whatever fault is raised inside a handler, execute_intent
\* returns with success=false and no exception leaves it; error holds the
\* fault's text when the fault left the handler, while a fault caught by the
\* handler's own try block is reported in message and error is not set.
C2_FaultsContained ==
    Executed =>
        /\ raised = NoException
        /\ handler_fault.text # None =>
              /\ result.success = FALSE
              /\ IF handler_fault.escaped
                 THEN /\ "error" \in DOMAIN result
                      /\ result.error = handler_fault.text
                 ELSE /\ ErrorOf(result) = None
                      /\ result.message.detail = handler_fault.text

C2_Witness ==
    /\ Executed
    /\ "action" \in DOMAIN intent
    /\ intent.action \in HandlerActions
    /\ handler_fault.escaped
    /\ result.success = FALSE
    /\ result.error = handler_fault.text
    /\ raised = NoException

\* the intent asks for an application the platform's command table lacks
UnsupportedApp ==
    /\ DOMAIN intent = IntentKeys
    /\ intent.action = "open_application"
    /\ intent.target \notin DOMAIN _get_app_commands(platform)

\* C6: dispatching open_application for a target without an entry in the
\* platform command table returns success=false with a descriptive message,
\* launches no process, changes no file, sets no error, raises no exception.
C6_UnsupportedAppFails ==
    [][(Dispatch /\ UnsupportedApp) =>
            /\ result'.success = FALSE
            /\ result'.message.text = "Application not supported or not found"
            /\ result'.message.arg = intent.target
            /\ procs' = procs
            /\ fs' = fs
            /\ ErrorOf(result') = None
            /\ raised' = NoException]_vars

C6_Witness ==
    /\ Executed
    /\ UnsupportedApp
    /\ intent.target = <<"n", "o", "n", "e", "x", "i", "s", "t", "e", "n", "t", "_", "a", "p", "p">>
    /\ result.success = FALSE
    /\ procs = <<>>

\* the intent asks to delete a file
DeleteIntent ==
    /\ DOMAIN intent = IntentKeys
    /\ intent.action = "file_operation"
    /\ intent.target = <<"d", "e", "l", "e", "t", "e">>

DeletePath == get(intent.parameters, "filename", <<"u", "n", "t", "i", "t", "l", "e", "d", ".", "t", "x", "t">>)

\* delete of a missing path: a failure without fault, nothing changed
DeleteMissing ==
    /\ result'.success = FALSE
    /\ result'.message.text = "File not found"
    /\ ErrorOf(result') = None
    /\ raised' = NoException
    /\ fs' = fs

\* C7 as stated: delete of a missing path returns success=false "not found"
\* without exception or error and leaves the file system unchanged; when the
\* path exists the file is removed and success=true is returned.
C7_Original ==
    [][(Dispatch /\ DeleteIntent) =>
            IF DeletePath \notin DOMAIN fs
            THEN DeleteMissing
            ELSE /\ DeletePath \notin DOMAIN fs'
                 /\ result'.success = TRUE]_vars

\* C7 as amended: the same for a missing path; when the path exists and
\* os.remove succeeds the file is removed and success=true is returned, and
\* when os.remove raises (a directory, an OS error) success=false is returned
\* with a "File operation failed" message, no error, no exception, and the
\* file system unchanged.
C7_DeleteOutcomes ==
    [][(Dispatch /\ DeleteIntent) =>
            IF DeletePath \notin DOMAIN fs
            THEN DeleteMissing
            ELSE IF handler_fault'.text = None
            THEN /\ fs[DeletePath].kind = "file"
                 /\ DeletePath \notin DOMAIN fs'
                 /\ \A p \in DOMAIN fs \ {DeletePath} : p \in DOMAIN fs' /\ fs'[p] = fs[p]
                 /\ result'.success = TRUE
            ELSE /\ result'.success = FALSE
                 /\ result'.message.text = "File operation failed"
                 /\ ErrorOf(result') = None
                 /\ raised' = NoException
                 /\ fs' = fs]_vars

C7_Witness ==
    /\ Executed
    /\ DeleteIntent
    /\ DeletePath \notin DOMAIN fs
    /\ result.success = FALSE
    /\ result.message.text = "File not found"

---------------------------------------------------------------------------
(* Claims about the live metrics (checked under Spec) and about            *)
(* calculate_performance_metrics (checked under Spec and SpecMetrics).     *)

\* a snapshot was calculated from a record list that was not empty
HasSnapshot == metrics # NoMetrics /\ metrics # NoParameters

\* C3: after any sequence of process_command calls the live metrics satisfy
\* total_commands = successful_commands + failed_commands, and so does every
\* snapshot calculate_performance_metrics returns.
C3_TotalIsSuccessPlusFailed ==
    /\ execution_metrics.total_commands =
          execution_metrics.successful_commands + execution_metrics.failed_commands
    /\ HasSnapshot =>
          metrics.overview.total_commands =
              metrics.overview.successful_commands + metrics.overview.failed_commands

C3_Witness ==
    /\ calls = 3
    /\ intent.confidence < 50
    /\ execution_metrics.total_commands = 2
    /\ execution_metrics.successful_commands = 1
    /\ execution_metrics.failed_commands = 1
    /\ HasSnapshot
    /\ metrics.overview.successful_commands >= 1
    /\ metrics.overview.failed_commands >= 1

\* C4: the average is updated as (avg * n_before + new_time) / (n_before + 1)
\* with a divisor of at least 1, so that after every dispatched command
\* average_response_time * total_commands is the sum of the execution times
\* of the commands dispatched so far: times 2, 4, 6 give 2, 3, 4.
C4_AverageIsMean ==
    LET avg == execution_metrics.average_response_time
        n == execution_metrics.total_commands
    IN  /\ n = Len(dispatched)
        /\ dispatched # <<>> => n >= 1
        /\ avg.den >= 1
        /\ avg.num * n = Sum(dispatched) * avg.den
        /\ dispatched = <<2>> => avg = [num |-> 2, den |-> 1]
        /\ dispatched = <<2, 4>> => avg = [num |-> 3, den |-> 1]
        /\ dispatched = <<2, 4, 6>> => avg = [num |-> 4, den |-> 1]

C4_Witness ==
    /\ dispatched = <<2, 4, 6>>
    /\ execution_metrics.total_commands = 3
    /\ execution_metrics.average_response_time = [num |-> 4, den |-> 1]

\* C5: in every snapshot the histogram is cumulative:
\* under_1s <= under_3s <= under_5s <= total_commands.
C5_HistogramCumulative ==
    HasSnapshot =>
        LET h == metrics.response_time_distribution
        IN  /\ h.under_1s <= h.under_3s
            /\ h.under_3s <= h.under_5s
            /\ h.under_5s <= metrics.overview.total_commands

C5_Witness ==
    /\ HasSnapshot
    /\ Len(data) = 2
    /\ metrics.response_time_distribution.under_1s = 1
    /\ metrics.response_time_distribution.under_3s = 2
    /\ metrics.response_time_distribution.under_5s = 2

---------------------------------------------------------------------------
(* Claims about process_command (checked under Spec). *)

\* the step in which process_command handles one command
Processed == calls' = calls + 1

\* C11: for a command whose intent has confidence below 0.5, process_command
\* does not invoke the dispatcher and leaves the four live metrics and the
\* execution log unchanged; it only emits a clarification request.
C11_MissLeavesNoTrace ==
    [][(Processed /\ intent'.confidence < 50) =>
            /\ steps' = <<"classify">>
            /\ UNCHANGED <<result, dispatched, fs, procs, capture_calls>>
            /\ UNCHANGED <<execution_metrics, log_file, appended>>
            /\ response'.kind = "clarify"
            /\ response'.message.arg = command']_vars

C11_Witness ==
    /\ calls = 2
    /\ command = <<"a", "s", "d", "k", "j", " ", "q", "w", "o", "e", "i">>
    /\ intent.confidence < 50
    /\ response.kind = "clarify"
    /\ execution_metrics.total_commands = 1
    /\ execution_metrics.failed_commands = 0
    /\ log_file.records # <<>>
    /\ Len(log_file.records) = 1

\* the step in which process_command dispatches a command
Dispatched == Processed /\ intent'.confidence >= 50

\* C12 as stated: every dispatched command appends exactly one record to the
\* execution log, and the records that were in the log before stay in it,
\* unchanged and in the same order, also when a log read or write fails.
C12_Original ==
    [][Dispatched =>
            /\ log_file'.exists
            /\ log_file'.valid
            /\ Len(log_file'.records) = Len(log_file.records) + 1
            /\ SubSeq(log_file'.records, 1, Len(log_file.records)) = log_file.records
            /\ log_file'.records[Len(log_file'.records)].command = command']_vars

\* C16 as stated: the steps of a processed command are classify, dispatch,
\* execution-log append, metrics update, in this order, so that the live
\* total_commands never exceeds the number of records appended in the session.
C16_Original ==
    /\ Len(steps) > 1 => steps = <<"classify", "dispatch", "log", "metrics">>
    /\ execution_metrics.total_commands <= appended

---------------------------------------------------------------------------
(* Claims about parse_command (checked under SpecParse). *)

\* C17 as stated: a content-creation trigger phrase followed by a topic is
\* classified content_creation ("write essay about ...", "create document
\* about ...", "write report about ...", "compose letter about ...").
C17_Original ==
    (/\ Parsed
     /\ command \in { <<"w", "r", "i", "t", "e", " ", "e", "s", "s", "a", "y", " ", "a", "b", "o", "u", "t", " ", "t", "e", "c", "h", "n", "o", "l", "o", "g", "y">>,
                      <<"c", "r", "e", "a", "t", "e", " ", "d", "o", "c", "u", "m", "e", "n", "t", " ", "a", "b", "o", "u", "t", " ", "a", "r", "t", "i", "f", "i", "c", "i", "a", "l", " ", "i", "n", "t", "e", "l", "l", "i", "g", "e", "n", "c", "e">>,
                      <<"w", "r", "i", "t", "e", " ", "r", "e", "p", "o", "r", "t", " ", "a", "b", "o", "u", "t", " ", "c", "l", "i", "m", "a", "t", "e", " ", "c", "h", "a", "n", "g", "e">>,
                      <<"c", "o", "m", "p", "o", "s", "e", " ", "l", "e", "t", "t", "e", "r", " ", "a", "b", "o", "u", "t", " ", "j", "o", "b", " ", "a", "p", "p", "l", "i", "c", "a", "t", "i", "o", "n">> })
        => intent.action = "content_creation"

---------------------------------------------------------------------------
(* Claims about execute_intent (checked under SpecExec). *)

\* execute_intent came to an outcome its code anticipates: an unknown action,
\* an unsupported application, the delete of a missing file, a file verb
\* without implementation
HandledOutcome ==
    /\ Executed
    /\ DOMAIN intent = IntentKeys
    /\ \/ intent.action \notin HandlerActions
       \/ UnsupportedApp
       \/ DeleteIntent /\ result.message.text = "File not found"
       \/ intent.action = "file_operation" /\
          intent.target \notin { <<"c", "r", "e", "a", "t", "e">>, <<"w", "r", "i", "t", "e">>, <<"d", "e", "l", "e", "t", "e">> }

\* the screenshot hook ran, or the result carries a screenshot
Captured == capture_calls > 0 \/ get(result, "screenshot", None) # None

ContentIntent ==
    /\ DOMAIN intent = IntentKeys
    /\ intent.action = "content_creation"

ContentFile ==
    intent.target \o <<"_">> \o
    replace_spaces(get(intent.parameters, "topic", <<"g", "e", "n", "e", "r", "a", "l", " ", "t", "o", "p", "i", "c">>)) \o <<".", "t", "x", "t">>

\* C19 as stated: once the rendered template has been written to the derived
\* file, a failure to launch the editor does not change the result:
\* success=true is returned.
C19_Original ==
    [][(/\ Dispatch
        /\ ContentIntent
        /\ ContentFile \notin DOMAIN fs
        /\ ContentFile \in DOMAIN fs') => result'.success = TRUE]_vars

---------------------------------------------------------------------------
(* Claims about calculate_performance_metrics (checked under SpecMetrics). *)

\* the records of the input that carry an execution_time
Timed == {i \in 1..Len(data) : "execution_time" \in DOMAIN data[i]}

\* C20 as stated: in every snapshot under_5s + over_5s = total_commands, also
\* when some records carry no execution_time.
C20_Original ==
    HasSnapshot =>
        metrics.response_time_distribution.under_5s +
        metrics.response_time_distribution.over_5s = metrics.overview.total_commands

\* C20 as amended: in every snapshot under_5s + over_5s is the number of
\* records that carry an execution_time, which is total_commands exactly when
\* every record carries one.
C20_ComplementAmongTimed ==
    HasSnapshot =>
        LET h == metrics.response_time_distribution
        IN  /\ h.under_5s + h.over_5s = Cardinality(Timed)
            /\ h.under_5s + h.over_5s <= metrics.overview.total_commands
            /\ (h.under_5s + h.over_5s = metrics.overview.total_commands)
                  <=> (Timed = 1..Len(data))

C20_Witness ==
    /\ HasSnapshot
    /\ Len(data) = 2
    /\ Cardinality(Timed) = 1
    /\ metrics.overview.total_commands = 2
    /\ metrics.response_time_distribution.under_5s = 0
    /\ metrics.response_time_distribution.over_5s = 1

---------------------------------------------------------------------------
(* Claims about the interaction loops (checked under SpecLoop). *)

\* C15 as stated: a loop ends only on an exit command (exit, quit, stop, in
\* any case) or an external interrupt; a fault raised while a command is
\* processed never ends it, and the loop then accepts the next command.
C15_Original ==
    /\ loop.ended_by \in {"none", "exit", "exit fault", "interrupt"}
    /\ (loop.mode # "none" /\ loop.ended_by = "none") => loop.running

---------------------------------------------------------------------------
(* Claims about the monitor (checked under SpecMonitor). *)

\* C13: under every interleaving of the pipeline's rewrite of the day's log
\* file with the monitor's read of it, the record list the monitor uses for a
\* snapshot holds only records that were written as a whole; a partly written
\* record or file is never part of a snapshot.
C13_OnlyWholeRecords ==
    /\ Len(data) <= writer.whole
    /\ \A i \in 1..Len(data) : data[i] = LogRecord(i)
    /\ HasSnapshot => metrics.overview.total_commands <= writer.whole

C13_Witness ==
    /\ monitor_thread = "calculate"
    /\ writer.pc = "write"
    /\ Len(writer.logs) = 2
    /\ writer.pos < Len(json_dump(writer.logs))
    /\ Len(reader) > 1
    /\ ~json_load(reader).ok
    /\ data = <<>>

\* C14: once stop_monitoring has cleared the flag, the monitor loop is not cut
\* off in the middle of a read, starts no new iteration after it next checks
\* the flag, and terminates (a terminated loop stays so until start_monitoring
\* starts the next one), so that the join of stop_monitoring returns.
C14_StopIsClean ==
    /\ [][monitor_thread = "read" => monitor_thread' \in {"read", "calculate"}]_vars
    /\ [][(~monitoring /\ monitor_thread = "check") => monitor_thread' \in {"check", "done"}]_vars
    /\ [][monitor_thread = "done" =>
            (monitor_thread' = "done" \/ (~monitoring /\ monitoring'))]_vars
    /\ (controller.pc = "joining") ~> (controller.pc = "stopped" /\ monitor_thread = "done")

C14_Witness ==
    /\ controller.pc = "stopped"
    /\ controller.saw = "read"
    /\ ~monitoring
    /\ monitor_thread = "done"
    /\ metrics # NoMetrics

---------------------------------------------------------------------------
(* Further claims about parse_command (checked under SpecParse). *)

\* everything after the first "about" of the text, trimmed
AfterAbout(text) == strip(slice_from(text, find(lower(text), <<"a", "b", "o", "u", "t">>) + 5))

\* C21 as stated: whenever the action is content_creation and the text
\* contains "about", parameters.topic is everything after the first "about",
\* trimmed, whether or not a content type was resolved and also for raw text
\* with leading whitespace.
C21_Original ==
    (Parsed /\ intent.action = "content_creation" /\ In(<<"a", "b", "o", "u", "t">>, lower(command)))
        => /\ "topic" \in DOMAIN intent.parameters
           /\ intent.parameters["topic"] = AfterAbout(command)

---------------------------------------------------------------------------
(* Further claims about execute_intent (checked under SpecExec). *)

CreateIntent ==
    /\ DOMAIN intent = IntentKeys
    /\ intent.action = "file_operation"
    /\ intent.target = <<"c", "r", "e", "a", "t", "e">>

CreatePath == get(intent.parameters, "filename", <<"u", "n", "t", "i", "t", "l", "e", "d", ".", "t", "x", "t">>)

\* C22 as stated: after a successful file_operation create, the file at
\* parameters.filename ("untitled.txt" when none was extracted) exists and is
\* empty, whatever the file system was before the call.
C22_Original ==
    [][(Dispatch /\ CreateIntent /\ result'.success) =>
            /\ CreatePath \in DOMAIN fs'
            /\ fs'[CreatePath] = File(<<>>)]_vars

\* C22 as amended: after a successful create the path exists; it is a new
\* empty file when the path was missing, and a file or directory that was
\* there before is left as it was. Nothing else changes.
C22_CreateTouches ==
    [][(Dispatch /\ CreateIntent /\ result'.success) =>
            /\ CreatePath \in DOMAIN fs'
            /\ fs' = IF CreatePath \in DOMAIN fs THEN fs
                     ELSE (CreatePath :> File(<<>>)) @@ fs
            /\ procs' = procs
            /\ result'.message.text = "Created file"
            /\ result'.message.arg = CreatePath]_vars

C22_Witness ==
    /\ Executed
    /\ CreateIntent
    /\ "filename" \notin DOMAIN intent.parameters
    /\ result.success
    /\ <<"u", "n", "t", "i", "t", "l", "e", "d", ".", "t", "x", "t">> \in DOMAIN fs
    /\ fs[<<"u", "n", "t", "i", "t", "l", "e", "d", ".", "t", "x", "t">>] = File(<<"S", "a", "m", "p", "l", "e", " ", "c", "o", "n", "t", "e", "n", "t">>)

SystemControlIntent ==
    /\ DOMAIN intent = IntentKeys
    /\ intent.action = "system_control"
    /\ \E i \in 1..Len(intent_patterns.system_control.keywords) :
          intent.target = intent_patterns.system_control.keywords[i]

\* C23 as stated: a system_control dispatch reports success=true only after
\* an OS command has been built, handed to the operating system and accepted,
\* for every target the classifier can produce (shutdown, restart, sleep,
\* hibernate, lock).
C23_Original ==
    (Executed /\ SystemControlIntent /\ result.success) =>
        /\ Len(procs) = 1
        /\ procs[1].prog = system_command(platform, intent.target)

---------------------------------------------------------------------------
(* Further claims about calculate_performance_metrics (checked under       *)
(* SpecMetrics).                                                           *)

\* the sum of performance_by_category[c].total over the categories in cs
RECURSIVE CategoryTotals(_, _)
CategoryTotals(perf, cs) ==
    IF cs = {} THEN 0
    ELSE LET c == CHOOSE x \in cs : TRUE
         IN  perf[c].total + CategoryTotals(perf, cs \ {c})

\* C24 as stated: for every category c, performance_by_category[c].total
\* equals categories[c], the totals over all categories sum to total_commands,
\* and success_rate and avg_response_time are 0 when a category's total is 0;
\* records whose intent or action is missing, grouped as unknown, included.
C24_Original ==
    HasSnapshot =>
        /\ DOMAIN metrics.performance_by_category = DOMAIN metrics.categories
        /\ \A c \in DOMAIN metrics.categories :
              /\ metrics.performance_by_category[c].total = metrics.categories[c]
              /\ metrics.performance_by_category[c].total = 0 =>
                    /\ metrics.performance_by_category[c].success_rate = Zero
                    /\ metrics.performance_by_category[c].avg_response_time = Zero
        /\ CategoryTotals(metrics.performance_by_category, DOMAIN metrics.categories)
              = metrics.overview.total_commands

\* generate_html_dashboard ran on a snapshot
HasDashboard == dashboard # NoDashboard

\* the records that took under 3 seconds
UnderThree == Count(data, LAMBDA d : "execution_time" \in DOMAIN d /\ d.execution_time < 3)

\* C28 as stated: for any snapshot of calculate_performance_metrics, the
\* fast_response_rate generate_html_dashboard computes is the percentage of
\* commands that took under 3 seconds, and lies between 0 and 100.
C28_Original ==
    (HasSnapshot /\ HasDashboard) =>
        /\ dashboard.fast_response_rate = Frac(UnderThree * 100, Len(data))
        /\ 0 <= dashboard.fast_response_rate.num
        /\ dashboard.fast_response_rate.num <= 100 * dashboard.fast_response_rate.den

ResultKeys == {"success", "message", "execution_time", "error", "screenshot"}

\* C25 as stated: every result execute_intent returns, on every outcome path
\* (handler success, handled failure, unknown action, unexpected fault), has
\* the fields success, message, execution_time, error and screenshot, with
\* error and screenshot null when unset.
C25_Original ==
    (Executed /\ raised = NoException) => DOMAIN result = ResultKeys

---------------------------------------------------------------------------
(* Claims about the gate of process_command (checked under SpecGate). *)

\* C26: the dispatcher is only ever invoked by process_command with an intent
\* whose action is not unknown and whose target is not empty: an intent of
\* parse_command has confidence 0.0 exactly when its target is empty, and
\* process_command drops every intent with confidence below 0.5, so the
\* unknown branch and the lookups of an empty target are never reached.
C26_DispatchOnlyResolved ==
    /\ [](intent # NoIntent => (intent.confidence = 0 <=> intent.target = <<>>))
    /\ [][Processed =>
            IF intent'.confidence < 50
            THEN steps' = <<"classify">> /\ UNCHANGED <<result, dispatched, procs, fs>>
            ELSE /\ intent'.action \in HandlerActions
                 /\ intent'.target # <<>>
                 /\ result'.message.text # "Unknown command"
                 /\ Len(dispatched') = Len(dispatched) + 1]_vars

C26_Witness ==
    /\ calls = 1
    /\ command = <<"r", "e", "s", "t", "a", "r", "t">>
    /\ intent.action = "open_application"
    /\ intent.target = <<>>
    /\ steps = <<"classify">>
    /\ result = NoResult

---------------------------------------------------------------------------
(* Claims about the system_control keywords (checked under SpecParse). *)

\* the utterance consists of one trigger keyword of system_control
KeywordAlone ==
    \E i \in 1..Len(intent_patterns.system_control.keywords) :
        command = intent_patterns.system_control.keywords[i]

\* C27 as stated: for each system_control trigger keyword k (shutdown,
\* restart, sleep, hibernate, lock), the utterance k alone is classified
\* with action system_control, target k and confidence 0.85.
C27_Original ==
    (Parsed /\ KeywordAlone) =>
        /\ intent.action = "system_control"
        /\ intent.target = command
        /\ intent.confidence = 85

---------------------------------------------------------------------------
(* Further claims about the monitor (checked under SpecMonitor). *)

\* the number of threads running _monitor_loop
LiveLoops == (IF thread_alive(monitor_thread) THEN 1 ELSE 0) + controller.orphans

\* C29: under any sequence of start_monitoring and stop_monitoring calls of
\* one controlling thread at most one monitor loop runs at any time: a start
\* while monitoring starts no second loop, and a start after a stop begins
\* only after the previous loop has terminated.
C29_AtMostOneLoop ==
    /\ [](LiveLoops <= 1)
    /\ [][(monitoring /\ monitor_thread' = "check") =>
            monitor_thread \in {"check", "sleep"}]_vars
    /\ [][(~monitoring /\ monitoring') =>
            (~thread_alive(monitor_thread) /\ monitor_thread' = "check")]_vars

C29_Witness ==
    /\ controller.pc = "started"
    /\ controller.saw = "read"
    /\ monitoring
    /\ monitor_thread = "read"
    /\ controller.orphans = 0

\* total_commands of a snapshot; calculate_performance_metrics returns {} for
\* an empty record list, which the dashboard shows as 0
SnapshotTotal(m) ==
    IF m = NoMetrics \/ m = NoParameters THEN 0 ELSE m.overview.total_commands

\* the step in which a monitor iteration calculates its snapshot
Snapshot == monitor_thread = "calculate" /\ monitor_thread' = "sleep"

\* C30 as stated: under every interleaving of command processing with the
\* monitor loop, the snapshot of a monitor iteration counts every record whose
\* append had completed before the iteration's read began, so total_commands
\* never decreases from one monitor snapshot to the next.
C30_Original ==
    [][Snapshot =>
            /\ SnapshotTotal(metrics') >= read_began
            /\ SnapshotTotal(metrics') >= SnapshotTotal(metrics)]_vars

=============================================================================
